---- MODULE Spec2Model ----
(***************************************************************************)
(* Model of the xa workload scheduling engine (src/xa/core/scheduler.py):  *)
(* the Info/Load/Step/Schedule data model, make_schedule, verify_schedule, *)
(* to_json/save_schedule/load_schedule and the run_schedule driver, with   *)
(* the helpers they call (load_config/check_config, valid_seed/            *)
(* valid_duration, the Random singleton, jsonify/save_json/load_data,      *)
(* verify_connection, get_workload_module), merge_config and the lifecycle *)
(* methods of WorkloadBase.                                                *)
(*                                                                         *)
(* Python values are modelled as tagged records so that the dynamic type   *)
(* tests of the code (isinstance, truthiness, int(), comparisons) are      *)
(* computed the way the interpreter computes them.                         *)
(***************************************************************************)
EXTENDS Integers, Sequences, FiniteSets, TLC

VARIABLES
    rnd,        \* the process-wide Random singleton (Random._instance and its stream)
    arg,        \* the argument of the last make_schedule call
    outcome,    \* how the last make_schedule / run_schedule call ended
    schedule,   \* the Schedule object the caller holds (None before one exists)
    reach,      \* environment: the remote hosts that answer a connection probe
    pc,         \* position of run_schedule
    cur,        \* run_schedule: number of loop-body executions completed
    nextMod,    \* number of workload module instances created so far
    log,        \* lifecycle calls made so far, in order
    file,       \* the content of the schedule file on disk
    ret         \* the value the last load_schedule / run_schedule call returned

vars == <<rnd, arg, outcome, schedule, reach, pc, cur, nextMod, log, file, ret>>

-----------------------------------------------------------------------------
(* Bounds of the model *)

MaxSteps == 2      \* longest workloads list of a configuration
MaxGroup == 2      \* longest parallel group inside a workloads list
MaxRunSteps == 2   \* longest workloads list of a configuration that is run
MaxNodes == 2      \* longest node list of a configuration that is run
MaxDraws == 1      \* most values the lifecycle calls of one Step draw from the stream
MaxVerifySteps == 2  \* longest steps list of a Schedule assembled by hand
MaxCalls == 4      \* most lifecycle calls made on one workload object (run_workload makes four)
MaxMergeKeys == 2  \* most top-level keys of a mapping handed to merge_config

-----------------------------------------------------------------------------
(* Python values *)

PyNone == [kind |-> "none"]
PyInt(n) == [kind |-> "int", n |-> n]
PyStr(s) == [kind |-> "str", s |-> s]
PyBool(b) == [kind |-> "bool", b |-> b]
\* a float, kept as its number of halves: PyFloat(3) is 1.5
PyFloat(h) == [kind |-> "float", h |-> h]
PyList(items) == [kind |-> "list", items |-> items]
PyTuple(items) == [kind |-> "tuple", items |-> items]
PyDict(d) == [kind |-> "dict", d |-> d]

\* bool(v): the truth value Python gives an object in `assert v` / `if v`
Truthy(v) ==
    CASE v.kind = "none" -> FALSE
      [] v.kind = "int"  -> v.n # 0
      [] v.kind = "str"  -> v.s # ""
      [] v.kind = "bool" -> v.b
      [] v.kind = "float" -> v.h # 0
      [] v.kind \in {"list", "tuple"} -> Len(v.items) > 0
      [] v.kind = "dict" -> DOMAIN v.d # {}
      [] OTHER -> TRUE

\* the strings of the model that int() parses, with the integers they denote
NumericStrings == ("7" :> 7) @@ ("8" :> 8) @@ ("120" :> 120)

\* int(v): [ok, n] with the converted integer, or [ok |-> FALSE, err] when int() raises;
\* a float is truncated towards zero
IntOf(v) ==
    CASE v.kind = "int"  -> [ok |-> TRUE, n |-> v.n, err |-> ""]
      [] v.kind = "bool" -> [ok |-> TRUE, n |-> IF v.b THEN 1 ELSE 0, err |-> ""]
      [] v.kind = "float" ->
            [ok |-> TRUE, n |-> IF v.h >= 0 THEN v.h \div 2 ELSE -((-v.h) \div 2),
             err |-> ""]
      [] v.kind = "str"  ->
            IF v.s \in DOMAIN NumericStrings
            THEN [ok |-> TRUE, n |-> NumericStrings[v.s], err |-> ""]
            ELSE [ok |-> FALSE, n |-> 0, err |-> "ValueError"]
      [] OTHER           -> [ok |-> FALSE, n |-> 0, err |-> "TypeError"]

\* v > 0 as Python evaluates it: "true", "false", or "TypeError" for a non-number
GtZero(v) ==
    CASE v.kind = "int"  -> IF v.n > 0 THEN "true" ELSE "false"
      [] v.kind = "bool" -> IF v.b THEN "true" ELSE "false"
      [] v.kind = "float" -> IF v.h > 0 THEN "true" ELSE "false"
      [] OTHER           -> "TypeError"

\* dict.get(key, default)
Get(d, key, default) == IF key \in DOMAIN d THEN d[key] ELSE default

-----------------------------------------------------------------------------
(* core/definitions.py *)

LogLevels == {"DEBUG", "INFO", "WARNING", "ERROR", "CRITICAL"}

ConfigMandatoryKeys == {"name", "description", "accelerators", "workloads", "timeout"}

\* Workloads.get_all(): the identifiers the configuration schema accepts
Workloads == {"cornet", "floresta", "hl_qual", "llama2_70b", "llama3_70b",
              "llama_3_1_405b", "nst", "sandstone"}

DefaultAccelerators == 8
DefaultDuration == 300
DefaultMaximumWorkloads == 100
DefaultMinimumMemory == 2
DefaultMinimumCores == 1
DefaultMinimumThreads == 1
DefaultMinimumWorkloads == 1
DefaultSeed == 12345
DefaultTimeout == 3600

MaxDurationValue == 10000
MaxSeedValue == 1000000000

\* get_system_id(): the hostname of the machine the program runs on
SystemId == "vm"

\* list_workloads(): the folders under workloads/
WorkloadFolders == {"example", "nst"}

\* the workload folders that hold the config.py their Workload class imports
WorkloadConfigFiles == {"example"}

-----------------------------------------------------------------------------
(* infra/arg_utils.py *)

\* valid_duration with the lower bound test written as d >= 0
valid_duration_nonneg(d) ==
    LET c == IntOf(d) IN
    IF ~c.ok THEN [ok |-> FALSE, n |-> 0, err |-> c.err]
    ELSE IF ~(c.n >= 0) THEN [ok |-> FALSE, n |-> 0, err |-> "AssertionError"]
    ELSE IF ~(c.n <= MaxDurationValue) THEN [ok |-> FALSE, n |-> 0, err |-> "AssertionError"]
    ELSE [ok |-> TRUE, n |-> c.n, err |-> ""]

\* ArgHelperActions.valid_duration(d): returns int(d) when 0 < int(d) <= 10000, else raises
valid_duration(d) ==
    LET c == IntOf(d) IN
    IF ~c.ok THEN [ok |-> FALSE, n |-> 0, err |-> c.err]
    ELSE IF ~(c.n > 0) THEN [ok |-> FALSE, n |-> 0, err |-> "AssertionError"]
    ELSE IF ~(c.n <= MaxDurationValue) THEN [ok |-> FALSE, n |-> 0, err |-> "AssertionError"]
    ELSE [ok |-> TRUE, n |-> c.n, err |-> ""]

\* ArgHelperActions.valid_seed(s): returns int(s) when 0 <= int(s) <= 1e9, else raises
valid_seed(s) ==
    LET c == IntOf(s) IN
    IF ~c.ok THEN [ok |-> FALSE, n |-> 0, err |-> c.err]
    ELSE IF ~(c.n >= 0) THEN [ok |-> FALSE, n |-> 0, err |-> "AssertionError"]
    ELSE IF ~(c.n <= MaxSeedValue) THEN [ok |-> FALSE, n |-> 0, err |-> "AssertionError"]
    ELSE [ok |-> TRUE, n |-> c.n, err |-> ""]

-----------------------------------------------------------------------------
(* infra/sys_utils.py: the Random singleton *)

\* Random._instance is None: no Random object has been created yet
NoRandom == [exists |-> FALSE, seed |-> PyNone, draws |-> 0]

\* the stream right after seed(s): s is an integer value, or None for OS entropy
Seeded(s) == [exists |-> TRUE, seed |-> s, draws |-> 0]

\* random.seed(s) that leaves the stream where it was
RandomSeed_keep(r, s) == r

\* random.seed(s) on the existing instance: the stream restarts from seed s
RandomSeed(r, s) == Seeded(s)

\* a call of random.random() or a sibling: the stream advances by one value
RandomDraw(r) == [r EXCEPT !.draws = @ + 1]

\* Random(*args): __new__ asserts that a seed is given when no instance exists yet;
\* __init__ then (re)seeds the one instance with its seed argument (None if omitted)
RandomNew(r, hasArgs, seedArg) ==
    IF ~r.exists /\ ~hasArgs
    THEN [ok |-> FALSE, err |-> "AssertionError", rnd |-> r]
    ELSE [ok |-> TRUE, err |-> "", rnd |-> Seeded(seedArg)]

-----------------------------------------------------------------------------
(* infra/data/config_schema.py and infra/config_utils.py *)

\* strings without any character of the class [a-zA-Z.0-9 ]
NoAlphaNumericStrings == {"", "--", "??"}

\* re.search(RegexStrings.AlphaNumericWithSpace, s) finds a match
MatchesAlphaNumericWithSpace(s) == s \notin NoAlphaNumericStrings

\* "type": "integer": an int that is not a bool, or a float without fraction
SchemaInteger(v) == v.kind = "int" \/ (v.kind = "float" /\ v.h % 2 = 0)

\* {"type": "string", "enum": all_workloads}
SchemaWorkloadName(v) == v.kind = "str" /\ v.s \in Workloads

\* {"type": "object", "properties": {...}, "required": ["workload"]}: the typed
\* properties are checked where the key is present, other keys are free
SchemaWorkloadObject(v) ==
    /\ v.kind = "dict"
    /\ "workload" \in DOMAIN v.d
    /\ SchemaWorkloadName(v.d["workload"])
    /\ \A k \in DOMAIN v.d \cap {"max_duration", "accelerators", "max_cores",
                                  "max_threads", "max_memory"} : SchemaInteger(v.d[k])
    /\ \A k \in DOMAIN v.d \cap {"description", "args", "system"} : v.d[k].kind = "str"
    /\ ("debug" \in DOMAIN v.d => v.d["debug"].kind = "bool")
    /\ ("log_level" \in DOMAIN v.d =>
            v.d["log_level"].kind = "str" /\ v.d["log_level"].s \in LogLevels)

\* {"type": "array", "items": {"type": "string", "enum": all_workloads}}
SchemaNameArray(v) ==
    /\ v.kind = "list"
    /\ \A i \in 1..Len(v.items) : SchemaWorkloadName(v.items[i])

\* the parallel-group alternative: an array of names, name arrays and objects
SchemaGroup(v) ==
    /\ v.kind = "list"
    /\ \A i \in 1..Len(v.items) :
          \/ SchemaWorkloadName(v.items[i])
          \/ SchemaNameArray(v.items[i])
          \/ SchemaWorkloadObject(v.items[i])

\* the "items" schema of the workloads array
SchemaWorkloadEntry(v) ==
    SchemaWorkloadName(v) \/ SchemaGroup(v) \/ SchemaWorkloadObject(v)

\* the schema without its "required" list
schema_nothing_required(config) ==
    /\ "name" \in DOMAIN config =>
          config["name"].kind = "str" /\ MatchesAlphaNumericWithSpace(config["name"].s)
    /\ "workloads" \in DOMAIN config =>
          /\ config["workloads"].kind = "list"
          /\ \A i \in 1..Len(config["workloads"].items) :
                SchemaWorkloadEntry(config["workloads"].items[i])
    /\ "timeout" \in DOMAIN config => SchemaInteger(config["timeout"])
    /\ "accelerators" \in DOMAIN config => SchemaInteger(config["accelerators"])
    /\ "description" \in DOMAIN config =>
          /\ config["description"].kind = "str"
          /\ MatchesAlphaNumericWithSpace(config["description"].s)

\* jsonschema.validate(config, schema) succeeds
schema(config) ==
    /\ ConfigMandatoryKeys \subseteq DOMAIN config
    /\ "name" \in DOMAIN config =>
          config["name"].kind = "str" /\ MatchesAlphaNumericWithSpace(config["name"].s)
    /\ "workloads" \in DOMAIN config =>
          /\ config["workloads"].kind = "list"
          /\ \A i \in 1..Len(config["workloads"].items) :
                SchemaWorkloadEntry(config["workloads"].items[i])
    /\ "timeout" \in DOMAIN config => SchemaInteger(config["timeout"])
    /\ "accelerators" \in DOMAIN config => SchemaInteger(config["accelerators"])
    /\ "description" \in DOMAIN config =>
          /\ config["description"].kind = "str"
          /\ MatchesAlphaNumericWithSpace(config["description"].s)

\* check_config(config): "" when it returns True, else the exception it raises
check_config(config) ==
    IF DOMAIN config = {} THEN "AssertionError"
    ELSE IF ~schema(config) THEN "ValidationError"
    ELSE ""

\* load_config(config, check=True).  a.src = "dict": the mapping is returned as it
\* is, unchecked; a.src = "file": the file is loaded, its path is stored under the
\* key "file" and the result is checked.
load_config(a) ==
    IF a.src = "dict"
    THEN [ok |-> TRUE, err |-> "", cfg |-> a.cfg]
    ELSE LET loaded == [k \in DOMAIN a.cfg \cup {"file"} |->
                            IF k = "file" THEN PyStr("test_config.py") ELSE a.cfg[k]]
             e == check_config(loaded)
         IN  IF e # "" THEN [ok |-> FALSE, err |-> e, cfg |-> loaded]
             ELSE [ok |-> TRUE, err |-> "", cfg |-> loaded]

-----------------------------------------------------------------------------
(* core/scheduler.py: the data model *)

\* `assert v > 0`: "" when it passes, else the exception raised
AssertGtZero(v) ==
    LET g == GtZero(v) IN
    IF g = "true" THEN "" ELSE IF g = "false" THEN "AssertionError" ELSE g

\* the first non-empty entry of a sequence of check results, "" if none
RECURSIVE FirstErr(_)
FirstErr(errs) ==
    IF errs = <<>> THEN ""
    ELSE IF Head(errs) # "" THEN Head(errs)
    ELSE FirstErr(Tail(errs))

\* the checks of Info.__init__, in the order the constructor makes them
InfoChecks(kw) ==
    << IF kw.log_level.kind = "str" /\ kw.log_level.s \in LogLevels
          THEN "" ELSE "AssertionError",
       valid_seed(kw.seed).err,
       valid_duration(kw.max_duration).err,
       AssertGtZero(kw.accelerators),
       AssertGtZero(kw.min_memory),
       AssertGtZero(kw.min_cores),
       AssertGtZero(kw.min_threads),
       AssertGtZero(kw.min_workloads),
       AssertGtZero(kw.max_workloads),
       valid_duration(kw.timeout).err >>

\* Info(**kw): the new object (identity oid) or the exception of the first failed check
Info(kw, oid) ==
    LET e == FirstErr(InfoChecks(kw)) IN
    IF e # "" THEN [ok |-> FALSE, err |-> e, val |-> PyNone]
    ELSE [ok |-> TRUE, err |-> "",
          val |-> [kind |-> "Info", oid |-> oid,
                   name |-> kw.name, description |-> kw.description,
                   args |-> kw.args, nodes |-> kw.nodes, debug |-> kw.debug,
                   log_level |-> kw.log_level,
                   seed |-> PyInt(valid_seed(kw.seed).n),
                   max_duration |-> kw.max_duration,
                   accelerators |-> kw.accelerators,
                   max_cores |-> kw.max_cores, max_threads |-> kw.max_threads,
                   max_memory |-> kw.max_memory, min_memory |-> kw.min_memory,
                   min_cores |-> kw.min_cores, min_threads |-> kw.min_threads,
                   timeout |-> kw.timeout,
                   min_workloads |-> kw.min_workloads,
                   max_workloads |-> kw.max_workloads]]

\* Load(workload, info): mod is None until run time
Load(workload, info) ==
    [kind |-> "Load", workload |-> workload, info |-> info, mod |-> PyNone]

\* Step(workloads, info)
Step(workloads, info) ==
    [kind |-> "Step", workloads |-> workloads, info |-> info]

\* Schedule(steps, info)
Schedule(steps, info) ==
    [kind |-> "Schedule", steps |-> steps, info |-> info]

\* verify_schedule without the assertion on len(schedule.steps)
verify_schedule_any_length(s) ==
    IF s.steps.kind # "list" THEN "AssertionError"
    ELSE IF \E i \in 1..Len(s.steps.items) :
               LET step == s.steps.items[i] IN
               \/ step.kind # "Step"
               \/ step.info.kind # "Info"
               \/ \E j \in 1..Len(step.workloads.items) :
                     \/ step.workloads.items[j].kind # "Load"
                     \/ step.workloads.items[j].info.kind # "Info"
         THEN "AssertionError"
    ELSE IF s.info.kind # "Info" THEN "AssertionError"
    ELSE ""

\* verify_schedule with `return True` inside the loop over the steps
verify_schedule_first_step(s) ==
    IF s.steps.kind # "list" THEN "AssertionError"
    ELSE IF ~(Len(s.steps.items) > 0) THEN "AssertionError"
    ELSE LET step == s.steps.items[1] IN
         IF \/ step.kind # "Step"
            \/ step.info.kind # "Info"
            \/ \E j \in 1..Len(step.workloads.items) :
                  \/ step.workloads.items[j].kind # "Load"
                  \/ step.workloads.items[j].info.kind # "Info"
         THEN "AssertionError"
         ELSE ""

\* verify_schedule(schedule): "" when it returns True, else the exception raised
verify_schedule(s) ==
    IF s.steps.kind # "list" THEN "AssertionError"
    ELSE IF ~(Len(s.steps.items) > 0) THEN "AssertionError"
    ELSE IF \E i \in 1..Len(s.steps.items) :
               LET step == s.steps.items[i] IN
               \/ step.kind # "Step"
               \/ step.info.kind # "Info"
               \/ \E j \in 1..Len(step.workloads.items) :
                     \/ step.workloads.items[j].kind # "Load"
                     \/ step.workloads.items[j].info.kind # "Info"
         THEN "AssertionError"
    ELSE IF s.info.kind # "Info" THEN "AssertionError"
    ELSE ""

-----------------------------------------------------------------------------
(* core/scheduler.py: make_schedule *)

\* the keyword arguments make_schedule passes to Info(...), read from the
\* configuration with the declared defaults
InfoArgs(config) ==
    [name          |-> Get(config, "name", PyNone),
     description   |-> Get(config, "description", PyNone),
     nodes         |-> Get(config, "nodes", PyList(<<PyStr(SystemId)>>)),
     debug         |-> Get(config, "debug", PyBool(FALSE)),
     log_level     |-> Get(config, "log_level", PyStr("INFO")),
     seed          |-> Get(config, "seed", PyInt(DefaultSeed)),
     args          |-> Get(config, "args", PyStr("")),
     max_duration  |-> Get(config, "duration", PyInt(DefaultDuration)),
     accelerators  |-> Get(config, "accelerators", PyInt(DefaultAccelerators)),
     max_cores     |-> Get(config, "maximum_cores", PyNone),
     max_threads   |-> Get(config, "maximum_threads", PyNone),
     max_memory    |-> Get(config, "maximum_memory", PyNone),
     max_workloads |-> Get(config, "maximum_workloads", PyInt(DefaultMaximumWorkloads)),
     min_memory    |-> Get(config, "minimum_memory", PyInt(DefaultMinimumMemory)),
     min_cores     |-> Get(config, "minimum_cores", PyInt(DefaultMinimumCores)),
     min_threads   |-> Get(config, "minimum_threads", PyInt(DefaultMinimumThreads)),
     min_workloads |-> Get(config, "minimum_workloads", PyInt(DefaultMinimumWorkloads)),
     timeout       |-> Get(config, "timeout", PyInt(DefaultTimeout))]

\* the inner loop body without the isinstance(wl, dict) branch
GroupLoad_nodict(wl, info) == Load(wl, info)

\* the Load built for one entry of a parallel group (the inner loop body)
GroupLoad(wl, info) ==
    IF wl.kind = "dict"
    THEN Load(Get(wl.d, "workload", PyNone), info)
    ELSE Load(wl, info)

\* the Loads built for a parallel group, in the order of the group
GroupLoads(group, info) ==
    [i \in 1..Len(group) |-> GroupLoad(group[i], info)]

\* the outer loop body with a fresh Info object constructed for every Step
StepOf_own_info(workload, info) ==
    LET own == [info EXCEPT !.oid = @ + 1] IN
    IF workload.kind = "list"
    THEN Step(PyList(GroupLoads(workload.items, own)), own)
    ELSE IF workload.kind = "dict"
    THEN Step(PyList(<<Load(Get(workload.d, "workload", PyNone), own)>>), own)
    ELSE Step(PyList(<<Load(workload, own)>>), own)

\* the Step built for one entry of the workloads list (the outer loop body)
StepOf(workload, info) ==
    IF workload.kind = "list"
    THEN Step(PyList(GroupLoads(workload.items, info)), info)
    ELSE IF workload.kind = "dict"
    THEN Step(PyList(<<Load(Get(workload.d, "workload", PyNone), info)>>), info)
    ELSE Step(PyList(<<Load(workload, info)>>), info)

\* the loop with steps.insert(0, ...) in place of steps.append(...)
StepsOf_prepend(workload_data, info) ==
    [i \in 1..Len(workload_data) |->
        StepOf(workload_data[Len(workload_data) + 1 - i], info)]

\* steps after the loop over workload_data: one Step per entry, appended in order
StepsOf(workload_data, info) ==
    [i \in 1..Len(workload_data) |-> StepOf(workload_data[i], info)]

\* make_schedule(config) called while the Random singleton is in state r:
\* the value returned or the exception raised, and the singleton afterwards.
\* Of the non-list values of "workloads" only None, integers and booleans are
\* covered (iterating them raises TypeError).
make_schedule(a, r) ==
    LET lc == load_config(a)
        config == lc.cfg
        ir == Info(InfoArgs(config), 1)
        info == ir.val
        rn == RandomNew(r, FALSE, PyNone)
        workload_data == Get(config, "workloads", PyList(<<>>))
        Raise(e, r2) == [status |-> "raised", err |-> e, sched |-> PyNone, rnd |-> r2]
    IN  IF ~lc.ok THEN Raise(lc.err, r)
        ELSE IF ~ir.ok THEN Raise(ir.err, r)
        ELSE IF ~Truthy(info.name) THEN Raise("AssertionError", r)
        ELSE IF ~Truthy(info.description) THEN Raise("AssertionError", r)
        ELSE IF ~rn.ok THEN Raise(rn.err, r)
        ELSE IF workload_data.kind # "list" THEN Raise("TypeError", Seeded(info.seed))
        ELSE [status |-> "returned", err |-> "",
              sched |-> Schedule(PyList(StepsOf(workload_data.items, info)), info),
              rnd |-> Seeded(info.seed)]

-----------------------------------------------------------------------------
(* The configurations the model passes to make_schedule *)

SeqsUpTo(S, n) == UNION {[1..k -> S] : k \in 0..n}

\* restriction of a mapping to some of its keys
Restrict(f, K) == [k \in K |-> f[k]]

Names == {PyStr("nst"), PyStr("sandstone")}

\* objects with override metadata; the second one lacks the "workload" key
MetaObjects == {PyDict([workload |-> PyStr("nst"), args |-> PyStr("-t individual")]),
                PyDict([args |-> PyStr("-t individual")])}

GroupItems == Names \cup MetaObjects \cup {PyList(<<PyStr("nst")>>)}

Groups == {PyList(g) : g \in SeqsUpTo(GroupItems, MaxGroup)}

\* the entries that are not lists: a bare identifier or an object
PlainEntries == Names \cup MetaObjects

\* parallel groups of exactly one entry
SingletonGroups == {PyList(<<e>>) : e \in GroupItems}

\* the workloads lists: every list of at most MaxSteps plain entries (sequential
\* runs), and the lists that hold a parallel group of at most MaxGroup entries,
\* alone, before or after a plain entry, or followed by a one-entry group
WorkloadLists ==
    {PyList(w) : w \in SeqsUpTo(PlainEntries, MaxSteps)}
    \cup {PyList(<<g>>) : g \in Groups}
    \cup {PyList(<<g, e>>) : g \in Groups, e \in PlainEntries \cup SingletonGroups}
    \cup {PyList(<<e, g>>) : e \in PlainEntries, g \in Groups}

\* family 1: the five mandatory keys with good and bad values, any of them absent
ScalarConfigs ==
    LET full == [name : {PyStr("Basic"), PyStr("")},
                 description : {PyStr("d")},
                 accelerators : {PyInt(-1), PyInt(0), PyInt(8)},
                 timeout : {PyInt(-5), PyInt(0), PyInt(120)},
                 workloads : {PyList(<<>>), PyInt(1), PyList(<<PyStr("nst")>>),
                              PyList(<<PyStr("nst"), PyStr("sandstone")>>)}]
    IN  {Restrict(f, K) : f \in full, K \in SUBSET ConfigMandatoryKeys}

\* family 2: good scalar values with every workloads list
ShapeConfigs ==
    {[name |-> PyStr("Basic"), description |-> PyStr("d"), accelerators |-> PyInt(8),
      timeout |-> PyInt(120), workloads |-> w] : w \in WorkloadLists}

\* a good configuration with two sequential workloads
TwoLoadConfig ==
    [name |-> PyStr("Basic"), description |-> PyStr("d"), accelerators |-> PyInt(8),
     timeout |-> PyInt(120), workloads |-> PyList(<<PyStr("nst"), PyStr("sandstone")>>)]

\* values of one constraint key at and around the bounds Info checks, and of the
\* wrong type
BoundValues ==
    [seed |-> {PyInt(-1), PyInt(0), PyInt(MaxSeedValue), PyInt(MaxSeedValue + 1)},
     duration |-> {PyInt(0), PyInt(1), PyInt(MaxDurationValue),
                   PyInt(MaxDurationValue + 1), PyFloat(1),
                   PyFloat(2 * MaxDurationValue + 1)},
     timeout |-> {PyInt(MaxDurationValue), PyInt(MaxDurationValue + 1),
                  PyFloat(2 * MaxDurationValue + 1), PyStr("120"), PyNone},
     accelerators |-> {PyInt(1), PyStr("8"), PyFloat(1)},
     minimum_workloads |-> {PyInt(0), PyInt(2), PyInt(3)},
     maximum_workloads |-> {PyInt(0), PyInt(1), PyInt(2)},
     log_level |-> {PyStr("DEBUG"), PyStr("TRACE")},
     name |-> {PyInt(1)},
     description |-> {PyInt(1)},
     workloads |-> {PyNone}]

\* family 3: the good configuration with one key set to one of the values above
BoundConfigs ==
    {[k \in DOMAIN TwoLoadConfig \cup {key} |->
         IF k = key THEN v ELSE TwoLoadConfig[k]] :
       <<key, v>> \in UNION {{<<k, v>> : v \in BoundValues[k]} : k \in DOMAIN BoundValues}}

\* a configuration is passed as a mapping ("dict") or as the path of a file ("file")
Configs == {[src |-> s, cfg |-> c] : s \in {"dict", "file"},
                                     c \in ScalarConfigs \cup ShapeConfigs \cup BoundConfigs}

\* the values of args.seed main passes to Random: the text of a --seed option, or
\* the default ConfigDefaultValues.Seed when the option is absent
MainSeeds == {PyStr("7"), PyInt(DefaultSeed)}

-----------------------------------------------------------------------------
(* Actions *)

NoOutcome == [op |-> "none", status |-> "none", err |-> ""]

\* the state before the program acts on the configuration a user supplied
InitWith(C, R, F) ==
    /\ rnd = NoRandom
    /\ arg \in C
    /\ outcome = NoOutcome
    /\ schedule = PyNone
    /\ reach \in R
    /\ pc = "idle"
    /\ cur = 0
    /\ nextMod = 0
    /\ log = <<>>
    /\ file \in F
    /\ ret = PyNone

\* no schedule file on disk
NoFile == [exists |-> FALSE, json |-> FALSE, value |-> PyNone]

Init == InitWith(Configs, {{}}, {NoFile})

\* main: Random(seed=args.seed) creates the singleton before anything else runs
SeedRandom ==
    /\ pc = "idle"
    /\ outcome.op = "none"
    /\ ~rnd.exists
    /\ \E s \in MainSeeds : rnd' = RandomNew(rnd, TRUE, s).rnd
    /\ UNCHANGED <<arg, outcome, schedule, reach, pc, cur, nextMod, log, file, ret>>

\* schedule = make_schedule(arg)
MakeSchedule ==
    /\ pc = "idle"
    /\ outcome.op = "none"
    /\ arg.src \in {"dict", "file"}
    /\ LET res == make_schedule(arg, rnd) IN
          /\ outcome' = [op |-> "make_schedule", status |-> res.status, err |-> res.err]
          /\ schedule' = res.sched
          /\ rnd' = res.rnd
    /\ UNCHANGED <<arg, reach, pc, cur, nextMod, log, file, ret>>

\* check_config(arg) is called on a mapping, as the configuration tests do
CheckConfig ==
    /\ pc = "idle"
    /\ outcome.op = "none"
    /\ arg.src = "dict"
    /\ LET e == check_config(arg.cfg) IN
          /\ outcome' = [op |-> "check_config",
                         status |-> IF e = "" THEN "returned" ELSE "raised", err |-> e]
          /\ ret' = IF e = "" THEN PyBool(TRUE) ELSE PyNone
    /\ UNCHANGED <<rnd, arg, schedule, reach, pc, cur, nextMod, log, file>>

Next == SeedRandom \/ MakeSchedule \/ CheckConfig

Spec == Init /\ [][Next]_vars

-----------------------------------------------------------------------------
(* infra/net_utils.py and core/workload.py *)

\* the identifiers run_schedule and verify_connection treat as the local node
LocalNodes == {PyStr(SystemId), PyStr(".")}

\* verify_connection answering True for every host
verify_connection_always(host, reachable) == TRUE

\* verify_connection(host): True for the local node, else whether the host
\* answers (resolve_address returns the address or None)
verify_connection(host, reachable) ==
    IF host \in LocalNodes THEN TRUE ELSE host \in reachable

\* the strings that contain Directories.Workloads ("workloads")
WorkloadsPathStrings == {"workloads", "min_workloads", "max_workloads",
                         "minimum_workloads", "maximum_workloads"}

\* `Directories.Workloads in name`: "true", "false", or "TypeError" when name is
\* not a container
InWorkloadsDir(name) ==
    CASE name.kind = "str" -> IF name.s \in WorkloadsPathStrings THEN "true" ELSE "false"
      [] name.kind \in {"list", "tuple"} ->
            IF \E i \in 1..Len(name.items) : name.items[i] = PyStr("workloads")
            THEN "true" ELSE "false"
      [] name.kind = "dict" -> IF "workloads" \in DOMAIN name.d THEN "true" ELSE "false"
      [] OTHER -> "TypeError"

\* get_workload_module(name): "" when a module instance is created, else the
\* exception raised.  The substring test raises TypeError for None and numbers;
\* when it succeeds, name.split(...len(Directories)...) raises TypeError for a
\* string (len() of a class) and AttributeError for a container without split; a
\* name or a container that is not a workload folder gives ValueError; a folder
\* whose config.py is missing gives AssertionError in the constructor of its
\* Workload class.
get_workload_module(name) ==
    LET d == InWorkloadsDir(name) IN
    IF d = "TypeError" THEN "TypeError"
    ELSE IF d = "true" THEN (IF name.kind = "str" THEN "TypeError" ELSE "AttributeError")
    ELSE IF ~(name.kind = "str" /\ name.s \in WorkloadFolders) THEN "ValueError"
    ELSE IF name.s \notin WorkloadConfigFiles THEN "AssertionError"
    ELSE ""

-----------------------------------------------------------------------------
(* core/scheduler.py: run_schedule *)

\* the connectivity loop of run_schedule: "" when every node of schedule.info.nodes
\* passes verify_connection, else the exception raised
CheckNodes(s, reachable) ==
    IF s.info.kind # "Info" THEN "AttributeError"
    ELSE IF s.info.nodes.kind # "list" THEN "TypeError"
    ELSE IF \E n \in 1..Len(s.info.nodes.items) :
               ~verify_connection(s.info.nodes.items[n], reachable)
         THEN "AssertionError"
    ELSE ""

RECURSIVE Flatten(_)
Flatten(ss) == IF ss = <<>> THEN <<>> ELSE Head(ss) \o Flatten(Tail(ss))

\* one execution of a loop body: phase, step, load and node index; err is the
\* exception raised when the loop header itself cannot be evaluated
Item(phase, i, j, n, err) == [phase |-> phase, step |-> i, load |-> j, node |-> n, err |-> err]

\* the iterations of `for node in load.info.nodes` for Load j of Step i in one phase
NodeItems(phase, i, j, load) ==
    IF load.kind # "Load" \/ load.info.kind # "Info"
    THEN <<Item(phase, i, j, 0, "AttributeError")>>
    ELSE IF load.info.nodes.kind # "list"
    THEN <<Item(phase, i, j, 0, "TypeError")>>
    ELSE [n \in 1..Len(load.info.nodes.items) |-> Item(phase, i, j, n, "")]

\* the iterations of one phase of Step i: `for load in step.workloads`, nodes inside
PhaseItems(phase, i, step) ==
    Flatten([j \in 1..Len(step.workloads.items) |->
                NodeItems(phase, i, j, step.workloads.items[j])])

\* the body of the step loop with the three phases nested inside the loop over
\* the loads (setup, run and teardown of one Load before the next Load)
StepItems_load_major(i, step) ==
    IF step.kind # "Step" \/ step.info.kind # "Info"
    THEN <<Item("seed", i, 0, 0, "AttributeError")>>
    ELSE <<Item("seed", i, 0, 0, "")>>
         \o Flatten([j \in 1..Len(step.workloads.items) |->
                NodeItems("setup", i, j, step.workloads.items[j])
                \o NodeItems("run", i, j, step.workloads.items[j])
                \o NodeItems("teardown", i, j, step.workloads.items[j])])

\* the body of the step loop for Step i: reseed, then the setup loop, the run
\* loop and the teardown loop
StepItems(i, step) ==
    IF step.kind # "Step" \/ step.info.kind # "Info"
    THEN <<Item("seed", i, 0, 0, "AttributeError")>>
    ELSE <<Item("seed", i, 0, 0, "")>>
         \o PhaseItems("setup", i, step)
         \o PhaseItems("run", i, step)
         \o PhaseItems("teardown", i, step)

\* the phases as the outer loop: setup of every Step, then run of every Step,
\* then teardown of every Step
RunOrder_phase_major(s) ==
    Flatten([i \in 1..Len(s.steps.items) |-> <<Item("seed", i, 0, 0, "")>>])
    \o Flatten([i \in 1..Len(s.steps.items) |-> PhaseItems("setup", i, s.steps.items[i])])
    \o Flatten([i \in 1..Len(s.steps.items) |-> PhaseItems("run", i, s.steps.items[i])])
    \o Flatten([i \in 1..Len(s.steps.items) |-> PhaseItems("teardown", i, s.steps.items[i])])

\* everything `for step in schedule.steps` executes, in order
RunOrder(s) ==
    Flatten([i \in 1..Len(s.steps.items) |-> StepItems(i, s.steps.items[i])])

\* a try/except around the lifecycle call that logs the error and goes on
Propagates_swallow(result) == FALSE

\* an exception raised by a call made in run_schedule leaves run_schedule
\* (no try/except anywhere in the function)
Propagates(result) == result = "raised"

-----------------------------------------------------------------------------
(* The inputs of the runs the model executes *)

RunEntries == {PyStr("example"), PyStr("nst"),
               PyList(<<PyStr("example"), PyStr("example")>>)}

RunWorkloadLists == {PyList(w) : w \in SeqsUpTo(RunEntries, MaxRunSteps)}

RemoteHosts == {PyStr("remote")}

\* values of the "nodes" key: None, or a list of local and remote identifiers
NodeValues ==
    {PyNone} \cup
    {PyList(n) : n \in SeqsUpTo({PyStr(".")} \cup RemoteHosts, MaxNodes)
                       \cup {<<PyStr(SystemId), PyStr(".")>>}}

RunBase(w) ==
    [name |-> PyStr("Basic"), description |-> PyStr("d"), accelerators |-> PyInt(8),
     timeout |-> PyInt(120), workloads |-> w]

\* configurations that are turned into a Schedule and run
RunConfigs ==
    {[src |-> "dict", cfg |-> RunBase(w)] : w \in RunWorkloadLists}
    \cup {[src |-> "dict",
           cfg |-> [k \in DOMAIN RunBase(w) \cup {"nodes"} |->
                       IF k = "nodes" THEN n ELSE RunBase(w)[k]]] :
             w \in RunWorkloadLists, n \in NodeValues}

LocalInfo == Info(InfoArgs(RunBase(PyList(<<>>)) @@ [nodes |-> PyList(<<PyStr(".")>>)]), 1).val
GoodStep == Step(PyList(<<Load(PyStr("example"), LocalInfo)>>), LocalInfo)
BadStep == Step(PyList(<<Load(PyStr("example"), PyNone)>>), LocalInfo)

\* a Step governed by an Info of its own, with another seed
OtherInfo ==
    Info(InfoArgs(RunBase(PyList(<<>>)) @@ [nodes |-> PyList(<<PyStr(".")>>),
                                            seed |-> PyInt(99)]), 2).val
OtherStep == Step(PyList(<<Load(PyStr("example"), OtherInfo)>>), OtherInfo)

\* Schedule objects a caller constructs directly, as the test of run_schedule does
BuiltSchedules ==
    {[src |-> "object", cfg |-> sch] :
        sch \in {Schedule(PyList(<<>>), PyNone),
                 Schedule(PyList(<<>>), LocalInfo),
                 Schedule(PyList(<<GoodStep>>), PyNone),
                 Schedule(PyList(<<GoodStep>>), LocalInfo),
                 Schedule(PyList(<<GoodStep, OtherStep>>), LocalInfo),
                 Schedule(PyList(<<GoodStep, BadStep>>), LocalInfo)}}

-----------------------------------------------------------------------------
(* Actions of a run *)

\* the configuration names a remote host in its node list
UsesRemote(a) ==
    /\ a.src = "dict"
    /\ "nodes" \in DOMAIN a.cfg
    /\ a.cfg["nodes"].kind = "list"
    /\ \E n \in 1..Len(a.cfg["nodes"].items) : a.cfg["nodes"].items[n] \in RemoteHosts

\* whether a remote host answers is drawn only where a remote host is named
InitRun ==
    /\ InitWith(RunConfigs \cup BuiltSchedules, SUBSET RemoteHosts, {NoFile})
    /\ reach = {} \/ UsesRemote(arg)

\* the caller holds a Schedule object it constructed itself
UseSchedule ==
    /\ pc = "idle"
    /\ outcome.op = "none"
    /\ arg.src = "object"
    /\ schedule' = arg.cfg
    /\ outcome' = [op |-> "Schedule", status |-> "returned", err |-> ""]
    /\ UNCHANGED <<rnd, arg, reach, pc, cur, nextMod, log, file, ret>>

RaiseFromRun(e) ==
    /\ pc' = "done"
    /\ outcome' = [op |-> "run_schedule", status |-> "raised", err |-> e]

\* run_schedule(schedule) is called: the connectivity loop
RunCheckNodes ==
    /\ pc = "idle"
    /\ outcome.status = "returned"
    /\ LET e == CheckNodes(schedule, reach) IN
          IF e # "" THEN RaiseFromRun(e)
          ELSE /\ pc' = "enter"
               /\ outcome' = [op |-> "run_schedule", status |-> "running", err |-> ""]
    /\ UNCHANGED <<rnd, arg, schedule, reach, cur, nextMod, log, file, ret>>

\* random = Random(); assert verify_schedule(schedule); data = {}
EnterLoop ==
    /\ pc = "enter"
    /\ LET rn == RandomNew(rnd, FALSE, PyNone)
           v == verify_schedule(schedule)
       IN  IF ~rn.ok THEN RaiseFromRun(rn.err) /\ UNCHANGED rnd
           ELSE /\ rnd' = rn.rnd
                /\ IF v # "" THEN RaiseFromRun(v)
                   ELSE pc' = "loop" /\ UNCHANGED outcome
    /\ UNCHANGED <<arg, schedule, reach, cur, nextMod, log, file, ret>>

\* the loop-body execution that comes next
HasNext == pc = "loop" /\ cur < Len(RunOrder(schedule))
NextItem == RunOrder(schedule)[cur + 1]
NextLoad == schedule.steps.items[NextItem.step].workloads.items[NextItem.load]
NextNode == NextLoad.info.nodes.items[NextItem.node]

\* the log entry of a call made for the next loop-body execution
Entry(op, mod, result) ==
    [op |-> op, step |-> NextItem.step, load |-> NextItem.load,
     node |-> NextItem.node, mod |-> mod, result |-> result]

\* random.seed(step.info.seed) at the entry of a Step
Reseed ==
    /\ HasNext
    /\ NextItem.phase = "seed"
    /\ IF NextItem.err # ""
       THEN RaiseFromRun(NextItem.err) /\ UNCHANGED <<rnd, cur>>
       ELSE /\ rnd' = RandomSeed(rnd, schedule.steps.items[NextItem.step].info.seed)
            /\ cur' = cur + 1
            /\ UNCHANGED <<pc, outcome>>
    /\ UNCHANGED <<arg, schedule, reach, nextMod, log, file, ret>>

\* setup phase, local node: load.mod = get_workload_module(load.workload), then
\* load.mod.setup() is invoked
SetupCall ==
    /\ HasNext
    /\ NextItem.phase = "setup"
    /\ NextItem.err # "" \/ NextNode \in LocalNodes
    /\ IF NextItem.err # ""
       THEN RaiseFromRun(NextItem.err) /\ UNCHANGED <<schedule, nextMod, log>>
       ELSE LET e == get_workload_module(NextLoad.workload)
                m == [kind |-> "module", id |-> nextMod + 1, name |-> NextLoad.workload]
            IN  IF e # ""
                THEN RaiseFromRun(e) /\ UNCHANGED <<schedule, nextMod, log>>
                ELSE /\ nextMod' = nextMod + 1
                     /\ schedule' = [schedule EXCEPT
                           !.steps.items[NextItem.step].workloads.items[NextItem.load].mod = m]
                     /\ log' = log \o <<Entry("resolve", m, "returned"),
                                        Entry("setup", m, "running")>>
                     /\ pc' = "call"
                     /\ UNCHANGED outcome
    /\ UNCHANGED <<rnd, arg, reach, cur, file, ret>>

\* run phase, local node: load.mod.run() is invoked
RunCall ==
    /\ HasNext
    /\ NextItem.phase = "run"
    /\ NextItem.err # "" \/ NextNode \in LocalNodes
    /\ IF NextItem.err # ""
       THEN RaiseFromRun(NextItem.err) /\ UNCHANGED log
       ELSE IF NextLoad.mod.kind # "module"
       THEN RaiseFromRun("AttributeError") /\ UNCHANGED log
       ELSE /\ log' = Append(log, Entry("run", NextLoad.mod, "running"))
            /\ pc' = "call"
            /\ UNCHANGED outcome
    /\ UNCHANGED <<rnd, arg, schedule, reach, cur, nextMod, file, ret>>

\* teardown phase, local node: load.mod.teardown() is invoked
TeardownCall ==
    /\ HasNext
    /\ NextItem.phase = "teardown"
    /\ NextItem.err # "" \/ NextNode \in LocalNodes
    /\ IF NextItem.err # ""
       THEN RaiseFromRun(NextItem.err) /\ UNCHANGED log
       ELSE IF NextLoad.mod.kind # "module"
       THEN RaiseFromRun("AttributeError") /\ UNCHANGED log
       ELSE /\ log' = Append(log, Entry("teardown", NextLoad.mod, "running"))
            /\ pc' = "call"
            /\ UNCHANGED outcome
    /\ UNCHANGED <<rnd, arg, schedule, reach, cur, nextMod, file, ret>>

\* the statement after a lifecycle call that ended with `result`
AfterCall(result) ==
    IF Propagates(result)
    THEN RaiseFromRun("Exception") /\ UNCHANGED cur
    ELSE cur' = cur + 1 /\ pc' = "loop" /\ UNCHANGED outcome

\* the lifecycle call in progress ends: the workload's code has drawn some values
\* from the shared stream, and it returns or raises
CallReturn ==
    /\ pc = "call"
    /\ \E draw \in {FALSE} \cup (IF rnd.draws < MaxDraws THEN {TRUE} ELSE {}) :
          rnd' = IF draw THEN RandomDraw(rnd) ELSE rnd
    /\ \E result \in {"returned", "raised"} :
          /\ log' = [log EXCEPT ![Len(log)].result = result]
          /\ AfterCall(result)
    /\ UNCHANGED <<arg, schedule, reach, nextMod, file, ret>>

\* any phase, node that is not the local one: `pass` (deployment is not implemented)
RemotePass ==
    /\ HasNext
    /\ NextItem.phase \in {"setup", "run", "teardown"}
    /\ NextItem.err = ""
    /\ NextNode \notin LocalNodes
    /\ cur' = cur + 1
    /\ UNCHANGED <<rnd, arg, outcome, schedule, reach, pc, nextMod, log, file, ret>>

\* the step loop is exhausted: the function body ends without a return statement,
\* so the caller receives None (the local `data` is never filled nor returned)
Finish ==
    /\ pc = "loop"
    /\ cur = Len(RunOrder(schedule))
    /\ pc' = "done"
    /\ outcome' = [op |-> "run_schedule", status |-> "returned", err |-> ""]
    /\ ret' = PyNone
    /\ UNCHANGED <<rnd, arg, schedule, reach, cur, nextMod, log, file>>

NextRun ==
    \/ SeedRandom
    \/ MakeSchedule
    \/ UseSchedule
    \/ RunCheckNodes
    \/ EnterLoop
    \/ Reseed
    \/ SetupCall
    \/ RunCall
    \/ TeardownCall
    \/ CallReturn
    \/ RemotePass
    \/ Finish

SpecRun == InitRun /\ [][NextRun]_vars

-----------------------------------------------------------------------------
(* infra/file_utils.py: jsonify, save_json, load_json; core/scheduler.py:      *)
(* to_json, save_schedule, load_schedule                                       *)

\* the attributes Info.__init__ sets, i.e. the keys of an Info object's __dict__
InfoFields == {"name", "description", "args", "nodes", "debug", "log_level", "seed",
               "max_duration", "accelerators", "max_cores", "max_threads", "max_memory",
               "min_memory", "min_cores", "min_threads", "timeout", "min_workloads",
               "max_workloads"}

\* jsonify(v): dicts and lists are rewritten in place, element by element; a tuple
\* is turned into a list first; an object with a to_json method is replaced by its
\* own __dict__, rewritten the same way; anything else (None, numbers, strings, a
\* workload module) is returned as it is
RECURSIVE jsonify(_)
jsonify(v) ==
    CASE v.kind = "dict" -> PyDict([k \in DOMAIN v.d |-> jsonify(v.d[k])])
      [] v.kind = "list" -> PyList([i \in 1..Len(v.items) |-> jsonify(v.items[i])])
      [] v.kind = "tuple" -> PyList([i \in 1..Len(v.items) |-> jsonify(v.items[i])])
      [] v.kind = "Info" -> PyDict([k \in InfoFields |-> jsonify(v[k])])
      [] v.kind = "Load" -> PyDict([workload |-> jsonify(v.workload),
                                    info |-> jsonify(v.info),
                                    mod |-> jsonify(v.mod)])
      [] v.kind = "Step" -> PyDict([workloads |-> jsonify(v.workloads),
                                    info |-> jsonify(v.info)])
      [] v.kind = "Schedule" -> PyDict([steps |-> jsonify(v.steps),
                                        info |-> jsonify(v.info)])
      [] OTHER -> v

\* Schedule.to_json(): jsonify(self.__dict__).  The dict handed to jsonify is the
\* object's own attribute dict, so the object's attributes are the rewritten values
\* afterwards: `obj` is the Schedule after the call, `val` the value returned.
to_json(s) ==
    [obj |-> [s EXCEPT !.steps = jsonify(s.steps), !.info = jsonify(s.info)],
     val |-> jsonify(s)]

\* a file that exists and is empty
EmptyFile == [exists |-> TRUE, json |-> FALSE, value |-> PyNone]

\* a file that holds the JSON text of the value v
JsonFile(v) == [exists |-> TRUE, json |-> TRUE, value |-> v]

\* save_json(data, file) for a path: open(file, "w") creates or truncates the file,
\* then json.dumps(str(data), f) raises TypeError (dumps takes one positional
\* argument) and nothing is written
save_json(data, f) == [status |-> "raised", err |-> "TypeError", file |-> EmptyFile]

\* save_schedule(schedule, file): save_json(schedule.to_json(), file)
save_schedule(s, f) ==
    LET j == to_json(s)
        w == save_json(j.val, f)
    IN  [status |-> w.status, err |-> w.err, sched |-> j.obj, file |-> w.file]

\* strings that hold a pattern sanitize() blocks ("--", "Drop table", "Delete from")
BlockedStrings == {"--", "Drop table x"}

\* strings that do not start with a character of the class [\w_. ]
NonVariableStrings == {"", "--", "-k", "-t individual", "??"}

\* the text f"{v}" holds a blocked pattern: some string inside v does
RECURSIVE HasBlocked(_)
HasBlocked(v) ==
    CASE v.kind = "str" -> v.s \in BlockedStrings
      [] v.kind \in {"list", "tuple"} -> \E i \in 1..Len(v.items) : HasBlocked(v.items[i])
      [] v.kind = "dict" ->
            \E k \in DOMAIN v.d : k \in BlockedStrings \/ HasBlocked(v.d[k])
      [] OTHER -> FALSE

\* sanitize_dict(v) returns True (it raises ValidationError otherwise): keys must
\* match RegexStrings.Variable, and neither a key nor the text of a value may hold
\* a blocked pattern; only dicts and lists are descended into
RECURSIVE sanitize_dict(_)
sanitize_dict(v) ==
    CASE v.kind = "dict" ->
            \A k \in DOMAIN v.d :
               /\ k \notin NonVariableStrings \cup BlockedStrings
               /\ sanitize_dict(v.d[k])
      [] v.kind = "list" -> \A i \in 1..Len(v.items) : sanitize_dict(v.items[i])
      [] OTHER -> ~HasBlocked(v)

EmptyDict == PyDict([k \in {} |-> PyNone])

\* load_data(file) of a .json path, i.e. load_json: a missing file gives {}, a file
\* that is not JSON makes load_json_file_2_dict raise (TypeError while it builds its
\* message from a Path), data that is not sanitary gives {}
load_data(f) ==
    IF ~f.exists THEN [ok |-> TRUE, err |-> "", data |-> EmptyDict]
    ELSE IF ~f.json THEN [ok |-> FALSE, err |-> "TypeError", data |-> PyNone]
    ELSE IF ~sanitize_dict(f.value) THEN [ok |-> TRUE, err |-> "", data |-> EmptyDict]
    ELSE [ok |-> TRUE, err |-> "", data |-> f.value]

\* load_schedule that returns the Schedule without the verify_schedule assertion
load_schedule_unverified(f) ==
    LET ld == load_data(f)
        Raise(e) == [status |-> "raised", err |-> e, sched |-> PyNone]
    IN  IF ~ld.ok THEN Raise(ld.err)
        ELSE IF ld.data.kind # "dict" THEN Raise("TypeError")
        ELSE IF DOMAIN ld.data.d # {"steps", "info"} THEN Raise("TypeError")
        ELSE [status |-> "returned", err |-> "",
              sched |-> Schedule(ld.data.d["steps"], ld.data.d["info"])]

\* load_schedule(file): Schedule(**load_data(file)), which needs exactly the keys
\* steps and info, then `assert verify_schedule(schedule)`
load_schedule(f) ==
    LET ld == load_data(f)
        Raise(e) == [status |-> "raised", err |-> e, sched |-> PyNone]
    IN  IF ~ld.ok THEN Raise(ld.err)
        ELSE IF ld.data.kind # "dict" THEN Raise("TypeError")
        ELSE IF DOMAIN ld.data.d # {"steps", "info"} THEN Raise("TypeError")
        ELSE LET sch == Schedule(ld.data.d["steps"], ld.data.d["info"])
                 v == verify_schedule(sch)
             IN  IF v # "" THEN Raise(v)
                 ELSE [status |-> "returned", err |-> "", sched |-> sch]

-----------------------------------------------------------------------------
(* The inputs of the persistence operations *)

\* a Step without an Info, a Step that holds something that is not a Load, and a
\* Step without Loads
NoInfoStep == Step(PyList(<<Load(PyStr("example"), LocalInfo)>>), PyNone)
NonLoadStep == Step(PyList(<<PyStr("example")>>), LocalInfo)
EmptyStep == Step(PyList(<<>>), LocalInfo)

\* what a steps list assembled by hand may hold
StepVariants == {GoodStep, BadStep, NoInfoStep, NonLoadStep, EmptyStep, PyStr("example")}

\* Schedule objects assembled by hand: steps is None or a list, info is None or an Info
VerifyObjects ==
    {[src |-> "object", cfg |-> Schedule(st, i)] :
        st \in {PyNone} \cup {PyList(q) : q \in SeqsUpTo(StepVariants, MaxVerifySteps)},
        i \in {PyNone, LocalInfo}}

\* configurations whose Schedule is saved and loaded
StoreConfigs == {[src |-> "dict", cfg |-> RunBase(w)] : w \in RunWorkloadLists}

\* contents of the schedule file found on disk
FileContents ==
    {NoFile, EmptyFile}
    \cup {JsonFile(v) : v \in
            {EmptyDict,
             PyInt(5),
             PyList(<<PyInt(1)>>),
             PyDict([steps |-> PyList(<<>>)]),
             PyDict([steps |-> PyList(<<>>), info |-> PyNone]),
             PyDict([steps |-> PyList(<<PyInt(1)>>), info |-> EmptyDict]),
             PyDict([steps |-> PyList(<<>>), info |-> PyNone, x |-> PyInt(1)]),
             PyDict([steps |-> PyStr("--"), info |-> PyNone]),
             jsonify(Schedule(PyList(<<GoodStep>>), LocalInfo))}}

-----------------------------------------------------------------------------
(* Actions of the persistence operations *)

InitStore ==
    /\ InitWith(StoreConfigs \cup VerifyObjects, {{}}, FileContents)
    /\ file = NoFile \/ arg \in StoreConfigs

\* the caller holds a Schedule that has not been run
HoldsSchedule == pc = "idle" /\ schedule # PyNone

\* verify_schedule(schedule)
VerifySchedule ==
    /\ HoldsSchedule
    /\ outcome.op \in {"make_schedule", "Schedule", "to_json", "save_schedule"}
    /\ LET e == verify_schedule(schedule) IN
          outcome' = [op |-> "verify_schedule",
                      status |-> IF e = "" THEN "returned" ELSE "raised", err |-> e]
    /\ UNCHANGED <<rnd, arg, schedule, reach, pc, cur, nextMod, log, file, ret>>

\* schedule.to_json()
ToJson ==
    /\ HoldsSchedule
    /\ outcome.op \in {"make_schedule", "Schedule"}
    /\ schedule' = to_json(schedule).obj
    /\ outcome' = [op |-> "to_json", status |-> "returned", err |-> ""]
    /\ UNCHANGED <<rnd, arg, reach, pc, cur, nextMod, log, file, ret>>

\* save_schedule(schedule, file)
SaveSchedule ==
    /\ HoldsSchedule
    /\ outcome.op \in {"make_schedule", "Schedule"}
    /\ LET res == save_schedule(schedule, file) IN
          /\ schedule' = res.sched
          /\ file' = res.file
          /\ outcome' = [op |-> "save_schedule", status |-> res.status, err |-> res.err]
    /\ UNCHANGED <<rnd, arg, reach, pc, cur, nextMod, log, ret>>

\* ret = load_schedule(file): of the file found on disk, or of the file just saved
LoadSchedule ==
    /\ pc = "idle"
    /\ outcome.op \in {"none", "save_schedule"}
    /\ LET res == load_schedule(file) IN
          /\ ret' = res.sched
          /\ outcome' = [op |-> "load_schedule", status |-> res.status, err |-> res.err]
    /\ UNCHANGED <<rnd, arg, schedule, reach, pc, cur, nextMod, log, file>>

NextStore ==
    \/ SeedRandom
    \/ MakeSchedule
    \/ UseSchedule
    \/ VerifySchedule
    \/ ToJson
    \/ SaveSchedule
    \/ LoadSchedule

SpecStore == InitStore /\ [][NextStore]_vars

-----------------------------------------------------------------------------
(* infra/config_utils.py: merge_config *)

\* The mappings and lists merge_config works on are objects: each has an identity
\* (oid), a mapping lists its keys in insertion order (keys) and holds a value for
\* each (d).  Numbers are values without identity.  The lists hold numbers only.
DictObject(oid, keys, d) == [kind |-> "dict", oid |-> oid, keys |-> keys, d |-> d]
ListObject(oid, items) == [kind |-> "list", oid |-> oid, items |-> items]

\* the objects a value is made of
RECURSIVE ObjectsOf(_)
ObjectsOf(v) ==
    IF v.kind = "dict" THEN {v} \cup UNION {ObjectsOf(v.d[k]) : k \in DOMAIN v.d}
    ELSE IF v.kind = "list" THEN {v}
    ELSE {}

\* the value v as it reads after the objects objs were assigned to: an object is
\* the same object through every reference to it
RECURSIVE SeenThrough(_, _)
SeenThrough(v, objs) ==
    IF v.kind \notin {"dict", "list"} THEN v
    ELSE IF \E o \in objs : o.oid = v.oid THEN CHOOSE o \in objs : o.oid = v.oid
    ELSE IF v.kind = "dict"
    THEN [v EXCEPT !.d = [k \in DOMAIN v.d |-> SeenThrough(v.d[k], objs)]]
    ELSE v

\* a copy of v made of objects that did not exist before
RECURSIVE CopyOf(_)
CopyOf(v) ==
    IF v.kind = "dict"
    THEN DictObject(<<"copy">> \o v.oid, v.keys, [k \in DOMAIN v.d |-> CopyOf(v.d[k])])
    ELSE IF v.kind = "list" THEN ListObject(<<"copy">> \o v.oid, v.items)
    ELSE v

\* copy.deepcopy that hands back its argument
deepcopy_same_object(v) == v

\* copy.deepcopy(v)
deepcopy(v) == CopyOf(v)

\* the mapping d with d[key] = v
WithKey(d, key, v) == [k \in DOMAIN d \cup {key} |-> IF k = key THEN v ELSE d[k]]

\* dest_data[key] = v, dest_data.update({key: v}): a key that is new goes to the
\* end of the keys, a key that is there keeps its place
SetItem(dest, key, v) ==
    [dest EXCEPT !.keys = IF key \in DOMAIN dest.d THEN @ ELSE Append(@, key),
                 !.d = WithKey(@, key, v)]

\* any(isinstance(.., dict)) and any(isinstance(.., list)) over the two values
Incompatible(a, b) ==
    /\ a.kind = "dict" \/ b.kind = "dict"
    /\ a.kind = "list" \/ b.kind = "list"

\* merge_json_internal(dest_data, new_data, view_overrides, overrides): [ok, val, ov]
\* with dest_data as the assignments left it and the keys appended to overrides;
\* ok = FALSE when the Exception of an incompatible pair is raised.  MergeEach is
\* the loop `for key in new_data` over the keys that are still to be handled.
RECURSIVE merge_json_internal(_, _)
RECURSIVE MergeEach(_, _, _)
MergeEach(dest, new, keys) ==
    IF keys = <<>> THEN [ok |-> TRUE, val |-> dest, ov |-> <<>>]
    ELSE LET key == Head(keys)
             one ==
               IF key \notin DOMAIN dest.d
               THEN [ok |-> TRUE, val |-> SetItem(dest, key, deepcopy(new.d[key])),
                     ov |-> <<>>]
               ELSE IF dest.d[key].kind = "dict" /\ new.d[key].kind = "dict"
               THEN LET r == merge_json_internal(dest.d[key], new.d[key]) IN
                    [ok |-> r.ok, val |-> SetItem(dest, key, r.val),
                     ov |-> <<key>> \o r.ov]
               ELSE IF Incompatible(dest.d[key], new.d[key])
               THEN [ok |-> FALSE, val |-> dest, ov |-> <<>>]
               ELSE [ok |-> TRUE, val |-> SetItem(dest, key, deepcopy(new.d[key])),
                     ov |-> <<key>>]
         IN  IF ~one.ok THEN one
             ELSE LET rest == MergeEach(one.val, new, Tail(keys)) IN
                  [ok |-> rest.ok, val |-> rest.val, ov |-> one.ov \o rest.ov]

merge_json_internal(dest, new) ==
    IF new.keys = <<>> THEN [ok |-> TRUE, val |-> dest, ov |-> <<>>]
    ELSE MergeEach(dest, new, new.keys)

\* merge_config(base_cfg, new_cfg, view_overridden): the merged copy of base_cfg,
\* with the list of overridden keys when view_overridden is set; base and new are
\* the two arguments as they read after the call
merge_config(base_cfg, new_cfg, view_overridden) ==
    LET r == merge_json_internal(deepcopy(base_cfg), new_cfg)
        overridden == PyList([k \in 1..Len(r.ov) |-> PyStr(r.ov[k])])
        assigned == ObjectsOf(r.val)
        base == SeenThrough(base_cfg, assigned)
        new == SeenThrough(new_cfg, assigned)
    IN  IF ~r.ok
        THEN [status |-> "raised", err |-> "Exception", val |-> PyNone,
              base |-> base, new |-> new]
        ELSE [status |-> "returned", err |-> "",
              val |-> IF view_overridden THEN PyTuple(<<r.val, overridden>>) ELSE r.val,
              base |-> base, new |-> new]

\* v built of objects of its own: the object at the root is oid, the object under
\* key k of a mapping is the mapping's oid extended by k
RECURSIVE Tagged(_, _)
Tagged(v, oid) ==
    IF v.kind = "dict"
    THEN DictObject(oid, v.keys, [k \in DOMAIN v.d |-> Tagged(v.d[k], Append(oid, k))])
    ELSE IF v.kind = "list" THEN ListObject(oid, v.items)
    ELSE v

\* the values of the mappings that are merged: a number, a list, nested mappings
NestedMapping ==
    DictObject(<<>>, <<"a">>, [a |-> DictObject(<<>>, <<"a">>, [a |-> PyInt(1)])])
NumbersMapping ==
    DictObject(<<>>, <<"b", "a">>, [a |-> PyInt(1), b |-> PyInt(1)])
ListMapping ==
    DictObject(<<>>, <<"a", "b">>, [a |-> ListObject(<<>>, <<>>), b |-> PyInt(2)])
MergeBaseValues == {PyInt(1), ListObject(<<>>, <<>>), NestedMapping, NumbersMapping}
MergeNewValues == {NestedMapping, ListMapping}

\* the orders in which a mapping can list at most MaxMergeKeys of the keys
KeyOrders ==
    LET MergeKeys == <<"a", "b", "c">>
        names == {MergeKeys[i] : i \in 1..MaxMergeKeys} IN
    {ks \in UNION {[1..n -> names] : n \in 0..MaxMergeKeys} :
        \A i, j \in 1..Len(ks) : ks[i] = ks[j] => i = j}

\* the mappings over at most MaxMergeKeys keys, with their objects named after root
MergeDicts(values, root) ==
    UNION {{Tagged(DictObject(<<>>, ks, d), <<root>>) :
              d \in [{ks[i] : i \in 1..Len(ks)} -> values]} : ks \in KeyOrders}

\* called is the two arguments as they were when merge_config was called
InitMerge ==
    InitWith({[src |-> "merge",
               cfg |-> [base |-> b, new |-> n, view_overridden |-> v],
               called |-> [base |-> b, new |-> n]] :
                 b \in MergeDicts(MergeBaseValues, "base"),
                 n \in MergeDicts(MergeNewValues, "new"), v \in BOOLEAN},
             {{}}, {NoFile})

\* ret = merge_config(base, new, view_overridden)
MergeConfig ==
    /\ pc = "idle"
    /\ outcome.op = "none"
    /\ arg.src = "merge"
    /\ LET res == merge_config(arg.cfg.base, arg.cfg.new, arg.cfg.view_overridden) IN
          /\ outcome' = [op |-> "merge_config", status |-> res.status, err |-> res.err]
          /\ ret' = res.val
          /\ arg' = [arg EXCEPT !.cfg.base = res.base, !.cfg.new = res.new]
    /\ UNCHANGED <<rnd, schedule, reach, pc, cur, nextMod, log, file>>

NextMerge == MergeConfig

SpecMerge == InitMerge /\ [][NextMerge]_vars

-----------------------------------------------------------------------------
(* core/workload.py: WorkloadBase, and the Workload classes of workloads/ *)

LifecycleMethods == {"setup", "run", "teardown", "verify"}

\* the methods of self that the body of WorkloadBase.<method> calls, in order; the
\* protected methods only write to the log
WorkloadBase_calls(method) ==
    CASE method = "setup"    -> <<"_setup">>
      [] method = "run"      -> <<"_run">>
      [] method = "teardown" -> <<"_teardown">>
      [] method = "verify"   -> <<"_verify">>
      [] OTHER               -> <<>>

\* the classes a workload object can be an instance of: the base class and the
\* Workload class of workloads/example/flow.py (the one of workloads/nst cannot be
\* instantiated, its config.py is absent)
WorkloadClasses == {"WorkloadBase"} \cup WorkloadConfigFiles

\* the methods class cls defines itself
Overrides(cls) == IF cls \in WorkloadConfigFiles THEN LifecycleMethods ELSE {}

\* the methods of self that the body of <cls>.Workload.<method> calls, in order
Workload_calls(cls, method) ==
    CASE method = "setup"    -> <<"_setup">>
      [] method = "run"      -> <<"_run">>
      [] method = "teardown" -> <<"_teardown">>
      [] method = "verify"   -> <<"_verify">>

\* attribute lookup on an instance of cls: the class's own method, else the inherited one
Resolve(cls, method) ==
    IF method \in Overrides(cls) THEN Workload_calls(cls, method)
    ELSE WorkloadBase_calls(method)

\* the call obj.<method>() or obj.<method>(constraints=c) binds its arguments: the
\* methods of WorkloadBase take constraints=None, those of the Workload classes
\* take no argument besides self
Binds(cls, method, withConstraints) ==
    method \in Overrides(cls) => ~withConstraints

\* the methods executed below the call on an instance of cls
Executed(cls, method, withConstraints) ==
    LET body == Resolve(cls, method) IN
    IF ~Binds(cls, method, withConstraints) THEN <<>>
    ELSE Flatten([k \in 1..Len(body) |-> <<body[k]>> \o Resolve(cls, body[k])])

\* how the call ends: a TypeError when the arguments do not bind
CallResult(cls, method, withConstraints) ==
    IF ~Binds(cls, method, withConstraints) THEN "TypeError" ELSE "returned"

\* a workload object of one of the classes
InitWorkload ==
    InitWith({[src |-> "workload", cfg |-> PyStr(c)] : c \in WorkloadClasses},
             {{}}, {NoFile})

\* obj.setup(), obj.run(), obj.teardown() or obj.verify(), with or without the
\* constraints argument, in any order a caller likes; run_workload makes the four
\* calls setup(), run(), teardown(), verify() on one object
LifecycleCall ==
    /\ pc = "idle"
    /\ arg.src = "workload"
    /\ Len(log) < MaxCalls
    /\ \E m \in LifecycleMethods, c \in BOOLEAN :
          log' = Append(log, [op |-> m, constraints |-> c,
                              ran |-> Executed(arg.cfg.s, m, c),
                              result |-> CallResult(arg.cfg.s, m, c)])
    /\ UNCHANGED <<rnd, arg, outcome, schedule, reach, pc, cur, nextMod, file, ret>>

NextWorkload == LifecycleCall

SpecWorkload == InitWorkload /\ [][NextWorkload]_vars

-----------------------------------------------------------------------------
(* Properties of make_schedule, checked under Spec *)

Returned == outcome.op = "make_schedule" /\ outcome.status = "returned"
Raised == outcome.op = "make_schedule" /\ outcome.status = "raised"

\* the "workloads" value of the configuration is a list
HasWorkloadList(c) == "workloads" \in DOMAIN c /\ c["workloads"].kind = "list"

\* the "workloads" value is a list of bare identifiers only
IsBareList(c) ==
    /\ HasWorkloadList(c)
    /\ \A i \in 1..Len(c["workloads"].items) : c["workloads"].items[i].kind = "str"

LoadsOfStep(i) == schedule.steps.items[i].workloads.items

\* C1: when make_schedule returns for a configuration whose workloads list holds N
\* bare identifiers, the Schedule has exactly N Steps and the i-th Step holds exactly
\* one Load, whose workload is the i-th identifier of the list.
C1_BareListOneStepPerEntry ==
    (Returned /\ IsBareList(arg.cfg)) =>
        LET w == arg.cfg["workloads"].items IN
        /\ Len(schedule.steps.items) = Len(w)
        /\ \A i \in 1..Len(w) :
              /\ Len(LoadsOfStep(i)) = 1
              /\ LoadsOfStep(i)[1].workload = w[i]

\* make_schedule returned for a configuration with every mandatory key and the
\* workloads list [nst, sandstone]
C1_Witness ==
    /\ Returned
    /\ check_config(arg.cfg) = ""
    /\ IsBareList(arg.cfg)
    /\ arg.cfg["workloads"].items = <<PyStr("nst"), PyStr("sandstone")>>

\* an entry of a parallel group that names a workload: a bare identifier or an
\* object with a workload field
NamesWorkload(e) ==
    \/ e.kind = "str"
    \/ e.kind = "dict" /\ "workload" \in DOMAIN e.d

\* the identifier such an entry names
NameOf(e) == IF e.kind = "dict" THEN e.d["workload"] ELSE e

\* a workloads entry that is a list of bare identifiers and/or objects with a workload field
IsNamedGroup(e) ==
    /\ e.kind = "list"
    /\ \A j \in 1..Len(e.items) : NamesWorkload(e.items[j])

\* C2: when make_schedule returns, every workloads entry that is a list of K
\* identifiers/objects has produced exactly one Step (the one at its position, the
\* Schedule having one Step per entry) with exactly K Loads whose workload names are,
\* as a set, the identifiers the list names.
C2_GroupBecomesOneStep ==
    (Returned /\ HasWorkloadList(arg.cfg)) =>
        LET w == arg.cfg["workloads"].items IN
        /\ Len(schedule.steps.items) = Len(w)
        /\ \A i \in 1..Len(w) :
              IsNamedGroup(w[i]) =>
                 /\ Len(LoadsOfStep(i)) = Len(w[i].items)
                 /\ {LoadsOfStep(i)[j].workload : j \in 1..Len(LoadsOfStep(i))}
                       = {NameOf(w[i].items[j]) : j \in 1..Len(w[i].items)}

\* make_schedule returned for a configuration the Validator accepts that has a
\* group of an object and an identifier
C2_Witness ==
    /\ Returned
    /\ check_config(arg.cfg) = ""
    /\ HasWorkloadList(arg.cfg)
    /\ \E i \in 1..Len(arg.cfg["workloads"].items) :
          LET e == arg.cfg["workloads"].items[i] IN
          /\ IsNamedGroup(e)
          /\ Len(e.items) = 2
          /\ e.items[1].kind = "dict"
          /\ e.items[2] = PyStr("sandstone")

\* C3: make_schedule raises, and returns no Schedule, for a configuration mapping
\* that is empty or lacks one of the mandatory keys.
C3_RejectedConfigRaises ==
    (outcome.op = "make_schedule"
        /\ ~(ConfigMandatoryKeys \subseteq DOMAIN arg.cfg)) =>
        (outcome.status = "raised" /\ schedule = PyNone)

\* C4: every Schedule returned by make_schedule satisfies verify_schedule.
C4_ReturnedScheduleVerifies ==
    Returned => verify_schedule(schedule) = ""

\* the configuration gives a value <= 0 for the key k
NonPositive(c, k) == k \in DOMAIN c /\ c[k].kind = "int" /\ c[k].n <= 0

\* C5: for a configuration whose accelerators value or timeout value is <= 0,
\* make_schedule raises and produces no Schedule.
C5_NonPositiveRaises ==
    (outcome.op = "make_schedule"
        /\ (NonPositive(arg.cfg, "accelerators") \/ NonPositive(arg.cfg, "timeout"))) =>
        (outcome.status = "raised" /\ schedule = PyNone)

\* make_schedule raised for a configuration that is good except for timeout = 0,
\* called while the Random singleton exists
C5_Witness ==
    /\ Raised
    /\ rnd.exists
    /\ arg.src = "dict"
    /\ ConfigMandatoryKeys \subseteq DOMAIN arg.cfg
    /\ arg.cfg["name"] = PyStr("Basic")
    /\ arg.cfg["accelerators"] = PyInt(8)
    /\ arg.cfg["timeout"] = PyInt(0)
    /\ arg.cfg["workloads"] = PyList(<<PyStr("nst")>>)

-----------------------------------------------------------------------------
(* Properties of run_schedule, checked under SpecRun *)

InRun == outcome.op = "run_schedule"

\* the (load, node) index pairs of Step i whose node is the local one
LocalPairs(i) ==
    LET loads == schedule.steps.items[i].workloads.items IN
    {p \in UNION {{<<j, n>> : n \in 1..Len(loads[j].info.nodes.items)} :
                      j \in 1..Len(loads)} :
        loads[p[1]].info.nodes.items[p[2]] \in LocalNodes}

\* among the first k - 1 logged calls there is a completed call op for Load j of
\* Step i on node n
CompletedBefore(k, op, i, j, n) ==
    \E m \in 1..(k - 1) :
        /\ log[m].op = op /\ log[m].step = i /\ log[m].load = j /\ log[m].node = n
        /\ log[m].result = "returned"

Phases == {"setup", "run", "teardown"}

\* C6: Steps run strictly in sequence with a barrier: the calls are logged in
\* Step order, and when a call is made for a Load of some Step, every Load of every
\* earlier Step has completed its setup, its run and its teardown.
C6_StepBarrier ==
    InRun =>
        /\ \A k1, k2 \in 1..Len(log) : k1 < k2 => log[k1].step <= log[k2].step
        /\ \A k \in 1..Len(log) : \A i \in 1..(log[k].step - 1) :
              \A p \in LocalPairs(i) : \A op \in Phases :
                 CompletedBefore(k, op, i, p[1], p[2])

\* a call has been made for the second Step after a first Step of two Loads
C6_Witness ==
    /\ InRun
    /\ \E k \in 1..Len(log) : log[k].step = 2
    /\ Len(LoadsOfStep(1)) = 2
    /\ LocalPairs(1) # {}

Rank(op) == CASE op = "resolve" -> 1 [] op = "setup" -> 1 [] op = "run" -> 2
              [] op = "teardown" -> 3

\* C7: within a Step the calls are made phase by phase: setup has completed for
\* every Load of the Step when run is invoked for any of them, run has completed for
\* every Load when teardown is invoked for any of them, and no call of an earlier
\* phase follows a call of a later phase of the same Step.
C7_PhaseOrder ==
    InRun =>
        \A k \in 1..Len(log) :
           /\ log[k].op = "run" =>
                 \A p \in LocalPairs(log[k].step) :
                    CompletedBefore(k, "setup", log[k].step, p[1], p[2])
           /\ log[k].op = "teardown" =>
                 \A p \in LocalPairs(log[k].step) :
                    CompletedBefore(k, "run", log[k].step, p[1], p[2])
           /\ \A k2 \in (k + 1)..Len(log) :
                 log[k2].step = log[k].step => Rank(log[k].op) <= Rank(log[k2].op)

\* teardown has been invoked in a Step of two Loads
C7_Witness ==
    /\ InRun
    /\ \E k \in 1..Len(log) :
          /\ log[k].op = "teardown"
          /\ Len(LoadsOfStep(log[k].step)) = 2

\* some node of schedule.info.nodes is neither local nor answering
HasUnreachableNode ==
    /\ schedule.info.kind = "Info"
    /\ schedule.info.nodes.kind = "list"
    /\ \E n \in 1..Len(schedule.info.nodes.items) :
          /\ schedule.info.nodes.items[n] \notin LocalNodes
          /\ schedule.info.nodes.items[n] \notin reach

\* C8: when a node of Schedule.info.nodes is unreachable, run_schedule ends with an
\* error and no module has been resolved and no setup, run or teardown call made.
C8_UnreachableNodeAborts ==
    (InRun /\ HasUnreachableNode) =>
        /\ pc = "done" /\ outcome.status = "raised"
        /\ log = <<>> /\ nextMod = 0

\* run_schedule was called with nodes [".", "remote"], remote not answering, on a
\* Schedule with a Load
C8_Witness ==
    /\ InRun
    /\ HasUnreachableNode
    /\ schedule.info.nodes.items = <<PyStr("."), PyStr("remote")>>
    /\ Len(schedule.steps.items) > 0

\* C9: a setup, run or teardown call that raises is the last call run_schedule
\* makes, and run_schedule ends with the error.
C9_RaiseEndsRun ==
    \A k \in 1..Len(log) :
        log[k].result = "raised" =>
            /\ k = Len(log)
            /\ pc = "done" /\ InRun /\ outcome.status = "raised"

\* run raised in the first of two Steps, after two Loads had been set up
C9_Witness ==
    /\ InRun
    /\ Len(schedule.steps.items) = 2
    /\ Len(log) > 0
    /\ log[Len(log)].result = "raised"
    /\ log[Len(log)].op = "run"
    /\ log[Len(log)].step = 1
    /\ Len(LoadsOfStep(1)) = 2

\* the structural conditions on a Schedule: a non-empty list of Steps, each with an
\* Info and with Loads that each have an Info, and an Info of its own
WellFormed(s) ==
    /\ s.steps.kind = "list"
    /\ Len(s.steps.items) > 0
    /\ \A i \in 1..Len(s.steps.items) :
          /\ s.steps.items[i].kind = "Step"
          /\ s.steps.items[i].info.kind = "Info"
          /\ \A j \in 1..Len(s.steps.items[i].workloads.items) :
                /\ s.steps.items[i].workloads.items[j].kind = "Load"
                /\ s.steps.items[i].workloads.items[j].info.kind = "Info"
    /\ s.info.kind = "Info"

\* C10: for a Schedule that is not well formed (zero Steps, a missing Info),
\* run_schedule never gets to resolve a module or to invoke setup, run or teardown,
\* and it ends with an error.
C10_InvalidScheduleNoCalls ==
    (InRun /\ ~WellFormed(schedule)) =>
        /\ log = <<>> /\ nextMod = 0
        /\ pc \in {"enter", "done"}
        /\ pc = "done" => outcome.status = "raised"

\* run_schedule raised at the verify_schedule gate for a Schedule with zero Steps
C10_Witness ==
    /\ InRun
    /\ pc = "done" /\ outcome.status = "raised" /\ outcome.err = "AssertionError"
    /\ rnd.exists
    /\ schedule.info.kind = "Info"
    /\ Len(schedule.steps.items) = 0

-----------------------------------------------------------------------------
(* Properties of verify_schedule, save_schedule and load_schedule, checked     *)
(* under SpecStore                                                             *)

\* C11: verify_schedule returns True exactly when steps is a non-empty list of Steps,
\* every Step and every Load they hold has an Info and the Schedule has an Info; in
\* every other case it raises, and it always raises for a Schedule with zero Steps.
C11_VerifyExactlyWellFormed ==
    outcome.op = "verify_schedule" =>
        /\ outcome.status \in {"returned", "raised"}
        /\ outcome.status = "returned" <=> WellFormed(schedule)
        /\ (schedule.steps.kind = "list" /\ Len(schedule.steps.items) = 0) =>
              outcome.status = "raised"

\* verify_schedule returned True for a hand-assembled Schedule of two Steps, one
\* of them without Loads
C11_Witness ==
    /\ outcome.op = "verify_schedule"
    /\ outcome.status = "returned"
    /\ arg.src = "object"
    /\ schedule.steps.items = <<GoodStep, EmptyStep>>

\* the Schedule the caller obtained, as it was when make_schedule returned it (or as
\* the caller assembled it)
Original ==
    IF arg.src = "object" THEN arg.cfg ELSE make_schedule(arg, Seeded(PyNone)).sched

\* the caller's Schedule was built by make_schedule and was valid when built
BuiltValid ==
    /\ arg.src # "object"
    /\ schedule # PyNone
    /\ make_schedule(arg, Seeded(PyNone)).status = "returned"
    /\ verify_schedule(Original) = ""

\* the same number of Steps, the same workload names per Step, the same Info values
SameStructure(a, b) ==
    /\ a.kind = "Schedule"
    /\ a.steps.kind = "list"
    /\ Len(a.steps.items) = Len(b.steps.items)
    /\ \A i \in 1..Len(b.steps.items) :
          /\ a.steps.items[i].kind = "Step"
          /\ Len(a.steps.items[i].workloads.items) = Len(b.steps.items[i].workloads.items)
          /\ \A j \in 1..Len(b.steps.items[i].workloads.items) :
                a.steps.items[i].workloads.items[j].workload
                   = b.steps.items[i].workloads.items[j].workload
    /\ a.info.kind = "Info"
    /\ \A k \in InfoFields : a.info[k] = b.info[k]

\* C12: for a valid Schedule S built by make_schedule, save_schedule(S) succeeds,
\* and load_schedule of the file it wrote succeeds and yields a Schedule with the
\* same number of Steps, the same workload names per Step and the same Info values.
C12_RoundTrip ==
    BuiltValid =>
        /\ outcome.op = "save_schedule" => outcome.status = "returned"
        /\ outcome.op = "load_schedule" =>
              outcome.status = "returned" /\ SameStructure(ret, Original)

\* C13: load_schedule either returns a Schedule that satisfies the structural
\* conditions of verify_schedule, or raises and returns nothing.
C13_LoadReturnsOnlyVerified ==
    outcome.op = "load_schedule" =>
        IF outcome.status = "returned"
        THEN ret.kind = "Schedule" /\ WellFormed(ret)
        ELSE outcome.status = "raised" /\ ret = PyNone

\* load_schedule raised at its verify_schedule assertion for a file that holds the
\* JSON form of a Schedule with one Step
C13_Witness ==
    /\ outcome.op = "load_schedule"
    /\ outcome.status = "raised"
    /\ outcome.err = "AssertionError"
    /\ file.json
    /\ file.value.kind = "dict"
    /\ DOMAIN file.value.d = {"steps", "info"}
    /\ file.value.d["steps"].kind = "list"
    /\ Len(file.value.d["steps"].items) = 1
    /\ file.value.d["steps"].items[1].kind = "dict"

\* C14: after save_schedule(S) or S.to_json() the Schedule S is what it was before:
\* the same Step, Load and Info objects (so it still satisfies verify_schedule).
C14_ConsumersLeaveScheduleUnchanged ==
    (outcome.op \in {"save_schedule", "to_json"} /\ arg.src # "object") =>
        schedule = Original

-----------------------------------------------------------------------------
(* Further properties of run_schedule, checked under SpecRun *)

\* the Step of the loop-body execution completed last
EnteredStep == RunOrder(schedule)[cur].step

\* no setup, run or teardown call of Step i has ended yet
NoCallEnded(i) ==
    \A k \in 1..Len(log) :
        (log[k].step = i /\ log[k].op \in Phases) => log[k].result = "running"

\* C15: from the entry of a Step on, the shared stream is the one seeded with
\* Step.info.seed, and it stands at its first value until a lifecycle call of that
\* Step has drawn from it: what the calls of a Step draw depends on that seed only,
\* not on the stream before the run nor on what earlier Steps drew.
C15_ReseedAtStepEntry ==
    (InRun /\ pc \in {"loop", "call"} /\ cur > 0) =>
        /\ rnd.exists
        /\ rnd.seed = schedule.steps.items[EnteredStep].info.seed
        /\ NoCallEnded(EnteredStep) => rnd.draws = 0

\* the first lifecycle call of the second Step is in progress; the second Step has
\* a seed of its own and the stream has been restarted from it
C15_Witness ==
    /\ InRun
    /\ pc = "call"
    /\ log[Len(log)].step = 2
    /\ NoCallEnded(2)
    /\ schedule.steps.items[2].info.seed # schedule.steps.items[1].info.seed
    /\ rnd = Seeded(schedule.steps.items[2].info.seed)

\* the Loads for which run was invoked
ExecutedLoads == {<<log[k].step, log[k].load>> : k \in {m \in 1..Len(log) : log[m].op = "run"}}

\* C16: when run_schedule returns after a run in which Loads were executed and no
\* lifecycle call raised, the value returned is a mapping with one entry per
\* executed Load.
C16_ReturnsResultMapping ==
    (InRun /\ pc = "done" /\ outcome.status = "returned" /\ ExecutedLoads # {}) =>
        /\ ret.kind = "dict"
        /\ Cardinality(DOMAIN ret.d) = Cardinality(ExecutedLoads)

\* the log positions of the calls made for Load j of Step i
CallsOf(i, j) == {k \in 1..Len(log) : log[k].step = i /\ log[k].load = j}

\* C17: Load.mod is None until the run; during a run the module of a Load is
\* resolved at most once, whatever its node list, and every setup, run and teardown
\* call of the Load goes to that one module instance.
C17_ModuleResolvedOnce ==
    /\ (pc \in {"idle", "enter"} /\ schedule # PyNone /\ WellFormed(schedule)) =>
          \A i \in 1..Len(schedule.steps.items) :
             \A j \in 1..Len(LoadsOfStep(i)) : LoadsOfStep(i)[j].mod = PyNone
    /\ InRun =>
          \A k1, k2 \in 1..Len(log) :
             (log[k1].step = log[k2].step /\ log[k1].load = log[k2].load) =>
                /\ log[k1].mod = log[k2].mod
                /\ (log[k1].op = "resolve" /\ log[k2].op = "resolve") => k1 = k2

\* another Load of the Step whose run is in progress has a local node and has not
\* had its run invoked yet
OtherLoadWaits ==
    /\ pc = "call"
    /\ log[Len(log)].op = "run"
    /\ \E p \in LocalPairs(log[Len(log)].step) :
          /\ p[1] # log[Len(log)].load
          /\ \A k \in 1..Len(log) :
                ~(log[k].op = "run" /\ log[k].step = log[Len(log)].step
                     /\ log[k].load = p[1])

\* C18: the Loads of a Step run concurrently: while the run of one Load is in
\* progress, the run of another Load of the same Step can be invoked.
C18_LoadsOfStepOverlap ==
    OtherLoadWaits => ENABLED RunCall

-----------------------------------------------------------------------------
(* Further properties of make_schedule, checked under Spec *)

\* the metadata keys of a workload object that name an Info field
OverrideKeys(e) == DOMAIN e.d \cap {"args", "timeout"}

\* the Load built for the entry e is governed by an Info that carries e's metadata
Overridden(load, e) ==
    (e.kind = "dict" /\ "workload" \in DOMAIN e.d) =>
        \A k \in OverrideKeys(e) : load.info[k] = e.d[k]

\* C19: for a workload object with override metadata, at top level or inside a
\* group, the Info of the Load built for it carries the object's values, while
\* Schedule.info keeps the top-level values of the configuration.
C19_OverrideGovernsLoad ==
    (Returned /\ HasWorkloadList(arg.cfg)) =>
        LET w == arg.cfg["workloads"].items IN
        /\ \A i \in 1..Len(w) :
              /\ Overridden(LoadsOfStep(i)[1], w[i])
              /\ w[i].kind = "list" =>
                    \A j \in 1..Len(w[i].items) : Overridden(LoadsOfStep(i)[j], w[i].items[j])
        /\ schedule.info.args = Get(arg.cfg, "args", PyStr(""))
        /\ schedule.info.timeout = Get(arg.cfg, "timeout", PyInt(DefaultTimeout))

\* twice the number a Python value denotes (floats are kept in halves)
IsNumber(v) == v.kind \in {"int", "bool", "float"}
Twice(v) ==
    CASE v.kind = "int"   -> 2 * v.n
      [] v.kind = "bool"  -> IF v.b THEN 2 ELSE 0
      [] v.kind = "float" -> v.h

\* lo <= v <= hi, resp. lo < v <= hi, for a Python value v that is a number
InClosed(v, lo, hi) == IsNumber(v) /\ 2 * lo <= Twice(v) /\ Twice(v) <= 2 * hi
InHalfOpen(v, lo, hi) == IsNumber(v) /\ 2 * lo < Twice(v) /\ Twice(v) <= 2 * hi
Positive(v) == IsNumber(v) /\ Twice(v) > 0

\* the bounds of the constraint fields, read off an Info or off the keyword
\* arguments it is constructed from
WithinBounds(i) ==
    /\ InClosed(i.seed, 0, MaxSeedValue)
    /\ InHalfOpen(i.max_duration, 0, MaxDurationValue)
    /\ Positive(i.accelerators)
    /\ Positive(i.min_workloads)
    /\ Positive(i.max_workloads)
    /\ InHalfOpen(i.timeout, 0, MaxDurationValue)
    /\ i.log_level.kind = "str" /\ i.log_level.s \in LogLevels

\* every Info reachable from the Schedule held
InfosOf(s) ==
    {s.info} \cup {s.steps.items[i].info : i \in 1..Len(s.steps.items)}
    \cup UNION {{s.steps.items[i].workloads.items[j].info :
                    j \in 1..Len(s.steps.items[i].workloads.items)} :
                 i \in 1..Len(s.steps.items)}

\* C21: every Info reachable from a Schedule make_schedule returned satisfies
\* 0 <= seed <= 1e9, 0 < max_duration <= 10000, accelerators > 0, min_workloads > 0,
\* max_workloads > 0, 0 < timeout <= 10000 and log_level in the enum; and when a
\* constraint handed to the Info constructor violates its bound, the construction
\* raises and no Schedule (hence no Info) is returned.
C21_InfoWithinBounds ==
    outcome.op = "make_schedule" =>
        /\ Returned => \A i \in InfosOf(schedule) : WithinBounds(i)
        /\ ~WithinBounds(InfoArgs(arg.cfg)) => (Raised /\ schedule = PyNone)

\* (checked under SpecRun) the configuration gives None as its "nodes" value
NullNodes(a) == a.src = "dict" /\ "nodes" \in DOMAIN a.cfg /\ a.cfg["nodes"] = PyNone

\* the log holds a call of the lifecycle method op for Load j of Step i
Invoked(op, i, j) ==
    \E k \in 1..Len(log) : log[k].op = op /\ log[k].step = i /\ log[k].load = j

\* C22: a Schedule built from a configuration whose "nodes" value is None passes the
\* reachability check of run_schedule, and when the run completes every Load has had
\* setup, run and teardown invoked.
C22_NullNodesRunLocally ==
    (InRun /\ NullNodes(arg)) =>
        /\ CheckNodes(schedule, reach) = ""
        /\ ~(pc = "done" /\ outcome.status = "raised" /\ log = <<>> /\ cur = 0
                /\ verify_schedule(schedule) = "")
        /\ (pc = "done" /\ outcome.status = "returned") =>
              \A i \in 1..Len(schedule.steps.items) :
                 \A j \in 1..Len(LoadsOfStep(i)) :
                    Invoked("setup", i, j) /\ Invoked("run", i, j) /\ Invoked("teardown", i, j)

\* the value of a mandatory key is not of the type the key requires
WrongType(key, v) ==
    CASE key \in {"name", "description"} -> v.kind # "str"
      [] key = "workloads" -> v.kind # "list"
      [] key \in {"accelerators", "timeout"} ->
            v.kind \in {"none", "str", "list", "dict"} \/ (v.kind = "float" /\ v.h % 2 = 1)

\* empty, or a mandatory key is absent, or a mandatory key has a value of the wrong type
StructurallyBad(c) ==
    \/ DOMAIN c = {}
    \/ ~(ConfigMandatoryKeys \subseteq DOMAIN c)
    \/ \E k \in ConfigMandatoryKeys \cap DOMAIN c : WrongType(k, c[k])

\* C23: check_config raises and returns nothing for the empty mapping, for a mapping
\* that lacks a mandatory key and for a mapping with a mandatory key of the wrong
\* type; when such a configuration is loaded from a file, make_schedule raises the
\* error of the structural check (a ValidationError, which no Info check raises) and
\* builds nothing.
C23_CheckConfigRejects ==
    StructurallyBad(arg.cfg) =>
        /\ outcome.op = "check_config" =>
              /\ outcome.status = "raised"
              /\ outcome.err \in {"AssertionError", "ValidationError"}
              /\ ret = PyNone
        /\ (outcome.op = "make_schedule" /\ arg.src = "file") =>
              /\ Raised
              /\ outcome.err = "ValidationError"
              /\ schedule = PyNone

\* check_config has raised for a non-empty mapping whose mandatory keys are all
\* present, one of them with a value of the wrong type
C23_Witness ==
    /\ outcome.op = "check_config"
    /\ outcome.status = "raised"
    /\ ConfigMandatoryKeys \subseteq DOMAIN arg.cfg
    /\ \E k \in ConfigMandatoryKeys : WrongType(k, arg.cfg[k])

\* C20: every Step of a Schedule that make_schedule returns for a configuration the
\* Validator accepts holds at least one Load.
C20_StepsAreNonEmpty ==
    (Returned /\ check_config(arg.cfg) = "") =>
        \A i \in 1..Len(schedule.steps.items) : Len(LoadsOfStep(i)) >= 1

-----------------------------------------------------------------------------
(* Properties of the workload lifecycle methods, checked under SpecWorkload *)

\* the protected method that bears the name of a public lifecycle method
SameNamed == [setup |-> "_setup", run |-> "_run", teardown |-> "_teardown",
              verify |-> "_verify"]

\* C24: a call of a public lifecycle method (setup, run, teardown, verify) on a
\* workload object, of the base class or of a Workload class, executes the protected
\* method of the same name exactly once and no other lifecycle method.
C24_PublicCallsProtectedOnce ==
    arg.src = "workload" =>
        \A k \in 1..Len(log) : log[k].ran = <<SameNamed[log[k].op]>>

-----------------------------------------------------------------------------
(* Properties of merge_config, checked under SpecMerge *)

\* base and new as merge_config was called with them, and as they read now
CalledBase == arg.called.base
CalledNew == arg.called.new
BaseCfg == arg.cfg.base
NewCfg == arg.cfg.new

\* what a value holds, whatever objects it is made of and whatever the order of
\* its keys: the value == compares
RECURSIVE Content(_)
Content(v) ==
    IF v.kind = "dict" THEN PyDict([k \in DOMAIN v.d |-> Content(v.d[k])])
    ELSE IF v.kind = "list" THEN PyList(v.items)
    ELSE v

\* m holds every key of b and n: n's value where n has the key (the merge of both
\* values when both are mappings), b's value where only b has it
RECURSIVE MergedOf(_, _, _)
MergedOf(m, b, n) ==
    /\ m.kind = "dict"
    /\ DOMAIN m.d = DOMAIN b.d \cup DOMAIN n.d
    /\ \A k \in DOMAIN m.d :
          IF k \notin DOMAIN n.d THEN Content(m.d[k]) = Content(b.d[k])
          ELSE IF k \in DOMAIN b.d /\ b.d[k].kind = "dict" /\ n.d[k].kind = "dict"
          THEN MergedOf(m.d[k], b.d[k], n.d[k])
          ELSE Content(m.d[k]) = Content(n.d[k])

\* the identities of the objects of a value
Oids(v) == {o.oid : o \in ObjectsOf(v)}

\* the keys present in both mappings, in n's order, each followed by the keys
\* present in both of its values when both values are mappings
RECURSIVE SharedKeys(_, _, _)
SharedKeys(b, n, keys) ==
    IF keys = <<>> THEN <<>>
    ELSE LET k == Head(keys)
             here == IF k \notin DOMAIN b.d THEN <<>>
                     ELSE IF b.d[k].kind = "dict" /\ n.d[k].kind = "dict"
                     THEN <<PyStr(k)>> \o SharedKeys(b.d[k], n.d[k], n.d[k].keys)
                     ELSE <<PyStr(k)>>
         IN  here \o SharedKeys(b, n, Tail(keys))

\* some key present in both, at some level of the merge, has a mapping on one side
\* and a list on the other
RECURSIVE Clash(_, _)
Clash(b, n) ==
    \E k \in DOMAIN b.d \cap DOMAIN n.d :
        \/ b.d[k].kind = "dict" /\ n.d[k].kind = "list"
        \/ b.d[k].kind = "list" /\ n.d[k].kind = "dict"
        \/ b.d[k].kind = "dict" /\ n.d[k].kind = "dict" /\ Clash(b.d[k], n.d[k])

\* the mapping merge_config returned, and the list returned with it
MergedPart == IF arg.cfg.view_overridden THEN ret.items[1] ELSE ret
OverriddenPart == ret.items[2]

\* base and new are the objects they were, holding what they held, in the order
\* they held it
LeftUnchanged == BaseCfg = CalledBase /\ NewCfg = CalledNew

\* what is returned is a new mapping: no object of it is an object of base or new
NewMapping == Oids(MergedPart) \cap (Oids(CalledBase) \cup Oids(CalledNew)) = {}

\* a mapping that is the merge of base and new is returned (in a pair with a list
\* when view_overridden is set)
ReturnsMerge ==
    /\ outcome.status = "returned"
    /\ arg.cfg.view_overridden => ret.kind = "tuple" /\ Len(ret.items) = 2
    /\ MergedOf(MergedPart, CalledBase, CalledNew)
    /\ NewMapping

\* the list returned holds exactly the keys present in both base and new, each once
ListsKeysInBoth ==
    /\ OverriddenPart.kind = "list"
    /\ {OverriddenPart.items[i] : i \in 1..Len(OverriddenPart.items)}
          = {PyStr(k) : k \in DOMAIN CalledBase.d \cap DOMAIN CalledNew.d}
    /\ Len(OverriddenPart.items) = Cardinality(DOMAIN CalledBase.d \cap DOMAIN CalledNew.d)

\* C25: merge_config(base, new) returns a new mapping in which every key of new
\* has new's value (merged recursively when both values are mappings) and every
\* key only in base keeps base's value, leaves base and new unchanged, and with
\* view_overridden=True additionally returns the list of exactly the keys present
\* in both.
C25_MergeReturnsOverridden ==
    outcome.op = "merge_config" =>
        /\ ReturnsMerge
        /\ LeftUnchanged
        /\ arg.cfg.view_overridden => ListsKeysInBoth

\* C25, amended: base and new are left unchanged by every call.  When some key
\* present in both (at any level of the merge) has a mapping on one side and a
\* list on the other, merge_config raises an Exception and returns nothing.
\* Otherwise it returns the new mapping claimed, and with view_overridden the list
\* of the keys present in both in new's order, each followed by the keys present
\* in both of its values when both values are mappings.
C25_MergeUnlessIncompatible ==
    outcome.op = "merge_config" =>
        /\ LeftUnchanged
        /\ IF Clash(CalledBase, CalledNew)
           THEN outcome.status = "raised" /\ outcome.err = "Exception" /\ ret = PyNone
           ELSE /\ ReturnsMerge
                /\ arg.cfg.view_overridden =>
                      OverriddenPart = PyList(SharedKeys(CalledBase, CalledNew, CalledNew.keys))

\* a merge with view_overridden of two mappings that list two shared keys in
\* opposite orders, that went into a nested mapping and changed it, and whose list
\* holds more than the keys present in both base and new
C25_Witness ==
    /\ outcome.op = "merge_config"
    /\ outcome.status = "returned"
    /\ arg.cfg.view_overridden
    /\ \E i, j \in 1..Len(CalledBase.keys) : \E p, q \in 1..Len(CalledNew.keys) :
          /\ i < j /\ q < p
          /\ CalledBase.keys[i] = CalledNew.keys[p]
          /\ CalledBase.keys[j] = CalledNew.keys[q]
    /\ \E k \in DOMAIN CalledBase.d \cap DOMAIN CalledNew.d :
          /\ CalledBase.d[k].kind = "dict" /\ CalledNew.d[k].kind = "dict"
          /\ Content(MergedPart.d[k]) # Content(CalledBase.d[k])
          /\ Content(MergedPart.d[k]) # Content(CalledNew.d[k])
    /\ ~ListsKeysInBoth

-----------------------------------------------------------------------------
(* Properties of the Info of a Schedule that is run, checked under SpecRun *)

\* C26: in a Schedule built by make_schedule from a configuration without override
\* metadata, every Step.info and every Load.info is the very same Info object as
\* Schedule.info, before, during and after run_schedule, and that Info keeps the
\* field values it was built with.
C26_OneInfoNeverChanged ==
    (arg.src = "dict" /\ schedule # PyNone) =>
        /\ schedule.info.kind = "Info"
        /\ \A i \in InfosOf(schedule) : i = schedule.info
        /\ schedule.info = Info(InfoArgs(arg.cfg), schedule.info.oid).val

\* a run of a Schedule with a parallel group has completed
C26_Witness ==
    /\ arg.src = "dict"
    /\ InRun /\ pc = "done" /\ outcome.status = "returned"
    /\ \E i \in 1..Len(schedule.steps.items) : Len(LoadsOfStep(i)) = 2
    /\ \E k \in 1..Len(log) : log[k].op = "teardown"

-----------------------------------------------------------------------------
(* Properties of make_schedule and the Random singleton, and of the Loads *)
(* it builds, checked under Spec                                         *)

\* the configuration passes check_config and every check of the Info constructor
ValidConfig(c) == check_config(c) = "" /\ FirstErr(InfoChecks(InfoArgs(c))) = ""

\* C27: make_schedule applied to a valid configuration returns a Schedule whatever
\* the state of the Random singleton, also when no instance has been created, and
\* leaves the singleton seeded with the seed of the configuration.
C27_ReturnsInAnyRandomState ==
    (outcome.op = "make_schedule" /\ ValidConfig(arg.cfg)) =>
        /\ Returned
        /\ schedule.kind = "Schedule"
        /\ rnd = Seeded(Get(arg.cfg, "seed", PyInt(DefaultSeed)))

\* C29: for a configuration the Validator schema accepts, every Load.workload of the
\* Schedule make_schedule returns is one identifier string of the workload
\* registry, never a list and never None, also when an entry of a parallel group
\* is itself a list of identifiers.
C29_LoadWorkloadIsIdentifier ==
    (Returned /\ check_config(arg.cfg) = "") =>
        \A i \in 1..Len(schedule.steps.items) :
           \A j \in 1..Len(LoadsOfStep(i)) :
              /\ LoadsOfStep(i)[j].workload.kind = "str"
              /\ LoadsOfStep(i)[j].workload.s \in Workloads

\* the number of Loads of the Schedule held
RECURSIVE SumLens(_)
SumLens(steps) ==
    IF steps = <<>> THEN 0 ELSE Len(Head(steps).workloads.items) + SumLens(Tail(steps))
TotalLoads == SumLens(schedule.steps.items)

\* C30: in a Schedule make_schedule returns, the total number of Loads is at least
\* Info.min_workloads and at most Info.max_workloads.
C30_LoadCountWithinLimits ==
    (/\ Returned
     /\ check_config(arg.cfg) = ""
     /\ verify_schedule(schedule) = ""
     /\ \A i \in 1..Len(schedule.steps.items) : Len(LoadsOfStep(i)) >= 1) =>
        /\ 2 * TotalLoads >= Twice(schedule.info.min_workloads)
        /\ 2 * TotalLoads <= Twice(schedule.info.max_workloads)

-----------------------------------------------------------------------------
(* Properties of the module instances of a run, checked under SpecRun *)

\* C28: when run_schedule returns, every module instance on which setup was invoked
\* has afterwards had run invoked, and after that teardown, whatever the node list
\* of the Load (also one that names the local node more than once).
C28_SetupIsFollowedByTeardown ==
    (InRun /\ pc = "done" /\ outcome.status = "returned") =>
        \A k \in 1..Len(log) :
           log[k].op = "setup" =>
              \E r \in (k + 1)..Len(log) :
                 /\ log[r].op = "run" /\ log[r].mod = log[k].mod
                 /\ \E t \in (r + 1)..Len(log) :
                       log[t].op = "teardown" /\ log[t].mod = log[k].mod

====
